---- MODULE Spec2Model ----
(***************************************************************************)
(* Local persistence and backup/restore of the diary application:          *)
(*   - the Section Store and the Item Store (app/hooks/useDiaryStorage.js) *)
(*   - the Archive Manager (app/hooks/useBackupManager.js)                 *)
(* over the AsyncStorage key-value store.                                  *)
(*                                                                         *)
(* JavaScript values are records tagged by `t`: arrays [t |-> "arr", v],   *)
(* objects [t |-> "obj", <properties>], strings, null, undefined and the   *)
(* hole of a sparse array.  A stored string is [json |-> v], v the value   *)
(* JSON.parse yields for it.                                               *)
(***************************************************************************)
EXTENDS Integers, Sequences, FiniteSets, TLC

\* ---------------------------------------------------------------- bounds
MaxClock == 2          \* readings of Date.now() are 1..MaxClock
MaxSections == 2       \* the section list is not grown beyond this length
MaxItems == 2          \* an item list is not grown beyond this length
MaxFails == 1          \* store calls that fail in one run
MaxOps == 5            \* operations in one run
MaxImports == 1        \* imports among them

Typed == {"A", "B"}         \* section names the user types
Names == Typed \cup {"C"}   \* section names: typed, or listed in an imported file
Texts == {"x", "y"}    \* entry texts the user types

\* ------------------------------------------------------------ JS values
Arr(s) == [t |-> "arr", v |-> s]
\* an array of strings (section names); its elements are TLA+ strings
StrArr(s) == [t |-> "arr", of |-> "string", v |-> s]
NullV == [t |-> "null"]
Undef == [t |-> "undefined"]
Obj == [t |-> "obj"]
Str == [t |-> "str"]
\* a hole of a sparse array: `a[5] = x` on a shorter array leaves holes
Hole == [t |-> "hole"]

IsArray(x) == x.t = "arr"
\* JavaScript truthiness (of the values above; Str is a non-empty string)
Truthy(x) == x.t \notin {"null", "undefined"}
SeqMap(Op(_), s) == [i \in 1..Len(s) |-> Op(s[i])]
SelectIdx(s, Keep(_)) ==
  LET F[i \in 0..Len(s)] ==
        IF i = 0 THEN << >>
        ELSE IF Keep(i) THEN Append(F[i - 1], s[i]) ELSE F[i - 1]
  IN F[Len(s)]
Includes(s, x) == \E i \in 1..Len(s) : s[i] = x
\* a bug: the last occurrence of each element is the one kept
DedupKeepsLast(s) == SelectIdx(s, LAMBDA i : \A j \in (i + 1)..Len(s) : s[j] # s[i])
\* `[...new Set(s)]`: the first occurrence of each element, in order
Dedup(s) == SelectIdx(s, LAMBDA i : \A j \in 1..(i - 1) : s[j] # s[i])

\* JSON.stringify followed by JSON.parse of a value: a hole or undefined
\* element of an array becomes null; the `data` property of an envelope is
\* converted in the same way.
RECURSIVE Json(_)
Json(x) ==
  IF x.t = "arr" /\ "of" \in DOMAIN x
    THEN x
  ELSE IF x.t = "arr"
    THEN Arr([i \in 1..Len(x.v) |-> IF x.v[i] \in {Undef, Hole} THEN NullV ELSE x.v[i]])
  ELSE IF x.t = "obj" /\ "data" \in DOMAIN x
    THEN [x EXCEPT !.data = Json(x.data)]
  ELSE x
Stringify(x) == [json |-> Json(x)]
Parse(str) == str.json
\* a string that is not JSON: JSON.parse throws a SyntaxError on it
BadJson == [t |-> "badjson"]
ParseThrows(content) == "json" \notin DOMAIN content

\* ------------------------------------------------------------ the store
SECTIONS == "@diary_sections"
ITEMS == "@diary_items_"
BACKUP_SECTIONS == "@backup_diary_sections"
BACKUP_ITEMS == "@backup_diary_items_"
BACKUP_METADATA == "@backup_metadata"
BackupVersion == 1

Keys == {SECTIONS, BACKUP_SECTIONS, BACKUP_METADATA}
          \cup {ITEMS \o n : n \in Names} \cup {BACKUP_ITEMS \o n : n \in Names}

\* getItem's null: no value under the key
Absent == [t |-> "absent"]
EmptyStore == [k \in Keys |-> Absent]

getItem(st, key) == st[key]
setItem(st, key, str) == [st EXCEPT ![key] = str]
removeItem(st, key) == [st EXCEPT ![key] = Absent]

VARIABLES
  store,         \* AsyncStorage: key -> stored string or Absent
  sections,      \* useDiarySections: the in-memory section list
  sectionName,   \* useDiaryItems: the section of the mounted item screen, "" when none
  items,         \* useDiaryItems: the in-memory item list
  clock,         \* the last reading of the system clock
  fails,         \* the store calls that have failed so far
  ops,           \* the operations run so far
  imports,       \* the imports run so far
  last,          \* the operation that ran last, its arguments and its outcome
  rendered,      \* useDiaryItems: the `items` of the last render, which the handlers close over
  calls,         \* the Item Store calls (addItem, loadItems) in flight
  flow,          \* useBackupManager: the exportBackup or importBackup call in flight
  isProcessing   \* useBackupManager: its isProcessing state

vars == <<store, sections, sectionName, items, clock, fails, ops, imports, last,
          rendered, calls, flow, isProcessing>>

\* ------------------------------------------------------- Backup Utility
\* Store calls of an operation are numbered in the order they are made;
\* f is the number of the call that fails (0: none fails).
\* a bug: only the metadata is written, the envelope is not
createBackupMetadataOnly(st, backupKey, data, now, f) ==
  IF f \in {1, 2} THEN [store |-> st, ok |-> FALSE]
  ELSE [store |-> setItem(st, BACKUP_METADATA, Stringify(
          [t |-> "obj", lastBackup |-> now, backupKey |-> backupKey, status |-> "success"])),
        ok |-> TRUE]

createBackup(st, backupKey, data, now, f) ==
  LET backupData == [t |-> "obj", data |-> data, timestamp |-> now, version |-> BackupVersion]
      metadata == [t |-> "obj", lastBackup |-> now, backupKey |-> backupKey, status |-> "success"]
  IN IF f = 1 THEN [store |-> st, ok |-> FALSE]
     ELSE LET s1 == setItem(st, backupKey, Stringify(backupData))
          IN IF f = 2 THEN [store |-> s1, ok |-> FALSE]
             ELSE [store |-> setItem(s1, BACKUP_METADATA, Stringify(metadata)), ok |-> TRUE]

\* what ends a call by an exception instead of a returned value
Thrown == [t |-> "thrown"]
\* the try block of restoreFromBackup; r = TRUE: the read fails
restoreFromBackupTry(st, backupKey, r) ==
  IF r THEN Thrown
  ELSE LET backupData == getItem(st, backupKey)
       IN IF backupData = Absent THEN NullV
          ELSE IF ParseThrows(backupData) THEN Thrown
          ELSE LET parsed == Parse(backupData)
               IN IF ~Truthy(parsed) THEN Thrown   \* parsed.timestamp of null
                  ELSE IF "data" \in DOMAIN parsed THEN parsed.data
                  ELSE Undef

\* a bug: no catch, what the try block throws reaches the caller
restoreFromBackupUncaught(st, backupKey, r) == restoreFromBackupTry(st, backupKey, r)

\* r = TRUE: the read fails
restoreFromBackup(st, backupKey, r) ==
  LET got == restoreFromBackupTry(st, backupKey, r)
  IN IF got = Thrown THEN NullV ELSE got

\* the failing call of a callee whose first call is call number `first` of the caller
Sub(f, first) == IF f >= first THEN f - first + 1 ELSE 0

\* -------------------------------------------------------- Section Store
\* A Section Store operation yields [store, sections, sets, result, error];
\* sets lists the values it passed to setSections, in the order of the calls.
loadSections(st, r) ==
  IF r THEN StrArr(<< >>)
  ELSE LET storedSections == getItem(st, SECTIONS)
       IN IF storedSections # Absent THEN Parse(storedSections) ELSE StrArr(<< >>)

\* a bug: a failed backup makes the operation fail
addSectionBackupFatal(st, secs, name, now, f) ==
  LET newSections == StrArr(<<name>> \o secs.v)
      thrown(s) == [store |-> s, sections |-> secs, sets |-> << >>,
                    result |-> "throw", error |-> "storage"]
  IN IF f = 1 THEN thrown(st)
     ELSE LET s1 == setItem(st, SECTIONS, Stringify(newSections))
              b == createBackup(s1, BACKUP_SECTIONS, newSections, now, Sub(f, 2))
          IN IF ~b.ok THEN thrown(b.store)
             ELSE [store |-> b.store, sections |-> newSections, sets |-> <<newSections>>,
                   result |-> "ok", error |-> ""]

\* a bug: the in-memory list is updated before the write and not put back
addSectionOptimistic(st, secs, name, now, f) ==
  LET newSections == StrArr(<<name>> \o secs.v)
  IN IF f = 1
       THEN [store |-> st, sections |-> newSections, sets |-> <<newSections>>,
             result |-> "throw", error |-> "storage"]
     ELSE [store |-> createBackup(setItem(st, SECTIONS, Stringify(newSections)),
                                  BACKUP_SECTIONS, newSections, now, Sub(f, 2)).store,
           sections |-> newSections, sets |-> <<newSections>>,
           result |-> "ok", error |-> ""]

addSection(st, secs, name, now, f) ==
  LET newSections == StrArr(<<name>> \o secs.v)
  IN IF f = 1
       THEN [store |-> st, sections |-> secs, sets |-> << >>,
             result |-> "throw", error |-> "storage"]
     ELSE LET s1 == setItem(st, SECTIONS, Stringify(newSections))
              b == createBackup(s1, BACKUP_SECTIONS, newSections, now, Sub(f, 2))
          IN [store |-> b.store, sections |-> newSections, sets |-> <<newSections>>,
              result |-> "ok", error |-> ""]

\* a bug: the section's items are left in the store
deleteSectionKeepsItems(st, secs, name, now, f) ==
  LET newSections == StrArr(SelectSeq(secs.v, LAMBDA s : s # name))
  IN IF f \in {1, 4, 5}
       THEN [store |-> st, sections |-> secs, sets |-> << >>,
             result |-> "throw", error |-> "storage"]
     ELSE [store |-> setItem(st, SECTIONS, Stringify(newSections)),
           sections |-> newSections, sets |-> <<newSections>>,
           result |-> "ok", error |-> ""]

\* a bug: the keys of the section are removed before the list is written
deleteSectionItemsFirst(st, secs, name, now, f) ==
  LET newSections == StrArr(SelectSeq(secs.v, LAMBDA s : s # name))
      thrown(s) == [store |-> s, sections |-> secs, sets |-> << >>,
                    result |-> "throw", error |-> "storage"]
  IN IF f = 1 THEN thrown(st)
     ELSE LET s1 == removeItem(st, ITEMS \o name)
          IN IF f = 2 THEN thrown(s1)
             ELSE LET s2 == removeItem(s1, BACKUP_ITEMS \o name)
                  IN IF f = 3 THEN thrown(s2)
                     ELSE [store |-> createBackup(setItem(s2, SECTIONS, Stringify(newSections)),
                                                  BACKUP_SECTIONS, newSections, now,
                                                  Sub(f, 4)).store,
                           sections |-> newSections, sets |-> <<newSections>>,
                           result |-> "ok", error |-> ""]
\* a bug: the items key is removed, the items backup of the section is not
deleteSectionKeepsBackup(st, secs, name, now, f) ==
  LET newSections == StrArr(SelectSeq(secs.v, LAMBDA s : s # name))
      thrown(s) == [store |-> s, sections |-> secs, sets |-> << >>,
                    result |-> "throw", error |-> "storage"]
  IN IF f = 1 THEN thrown(st)
     ELSE LET s1 == setItem(st, SECTIONS, Stringify(newSections))
              b == createBackup(s1, BACKUP_SECTIONS, newSections, now,
                                IF f \in {2, 3} THEN f - 1 ELSE 0)
          IN IF f \in {4, 5} THEN thrown(b.store)
             ELSE [store |-> removeItem(b.store, ITEMS \o name),
                   sections |-> newSections, sets |-> <<newSections>>,
                   result |-> "ok", error |-> ""]
deleteSection(st, secs, name, now, f) ==
  LET newSections == StrArr(SelectSeq(secs.v, LAMBDA s : s # name))
      thrown(s) == [store |-> s, sections |-> secs, sets |-> << >>,
                    result |-> "throw", error |-> "storage"]
  IN IF f = 1 THEN thrown(st)
     ELSE LET s1 == setItem(st, SECTIONS, Stringify(newSections))
              b == createBackup(s1, BACKUP_SECTIONS, newSections, now,
                                IF f \in {2, 3} THEN f - 1 ELSE 0)
          IN IF f = 4 THEN thrown(b.store)
             ELSE LET s2 == removeItem(b.store, ITEMS \o name)
                  IN IF f = 5 THEN thrown(s2)
                     ELSE [store |-> removeItem(s2, BACKUP_ITEMS \o name),
                           sections |-> newSections, sets |-> <<newSections>>,
                           result |-> "ok", error |-> ""]

\* `sections.includes(newName)`, on the hook's in-memory list
nameExists(secs, newName) == Includes(secs.v, newName)

\* `sections.map(section => section === oldName ? newName : section)`
renamedSections(secs, oldName, newName) ==
  StrArr(SeqMap(LAMBDA s : IF s = oldName THEN newName ELSE s, secs.v))

\* The calls of renameSection: 1 the list write, 2 the read of the old items;
\* when items are stored, 3 the copy and 4, 5 its backup; then (d = 3 or 0 calls
\* later) 3+d and 4+d the two removals and 5+d, 6+d the backup of the list.
renameCalls(st, secs, oldName, newName) ==
  IF nameExists(secs, newName) THEN 0
  ELSE IF getItem(st, ITEMS \o oldName) # Absent THEN 9 ELSE 6

renameSection(st, secs, oldName, newName, now, f) ==
  LET thrown(s, e) == [store |-> s, sections |-> secs, sets |-> << >>,
                       result |-> "throw", error |-> e]
      updatedSections == renamedSections(secs, oldName, newName)
      oldItemsKey == ITEMS \o oldName
      newItemsKey == ITEMS \o newName
  IN IF nameExists(secs, newName) THEN thrown(st, "Section name already exists")
     ELSE IF f = 1 THEN thrown(st, "storage")
     ELSE LET s1 == setItem(st, SECTIONS, Stringify(updatedSections))
          IN IF f = 2 THEN thrown(s1, "storage")
             ELSE LET storedItems == getItem(s1, oldItemsKey)
                      d == IF storedItems # Absent THEN 3 ELSE 0
                      s2 == IF storedItems # Absent
                              THEN IF f = 3 THEN s1
                                   ELSE createBackup(setItem(s1, newItemsKey, storedItems),
                                                     BACKUP_ITEMS \o newName, Parse(storedItems),
                                                     now, IF f \in {4, 5} THEN f - 3 ELSE 0).store
                              ELSE s1
                  IN IF storedItems # Absent /\ f = 3 THEN thrown(s2, "storage")
                     ELSE IF f = 3 + d THEN thrown(s2, "storage")
                     ELSE LET s3 == removeItem(s2, oldItemsKey)
                          IN IF f = 4 + d THEN thrown(s3, "storage")
                             ELSE LET s4 == removeItem(s3, BACKUP_ITEMS \o oldName)
                                      b == createBackup(s4, BACKUP_SECTIONS, updatedSections, now,
                                                        IF f >= 5 + d THEN f - (4 + d) ELSE 0)
                                  IN [store |-> b.store, sections |-> updatedSections,
                                      sets |-> <<updatedSections>>,
                                      result |-> "ok", error |-> ""]

\* ----------------------------------------------------------- Item Store
loadItems(st, name, r) ==
  IF r THEN Arr(<< >>)
  ELSE LET storedItems == getItem(st, ITEMS \o name)
       IN IF storedItems # Absent THEN Parse(storedItems) ELSE Arr(<< >>)

\* a bug: the backup of the items is written under the key of the section
\* list's backup
saveItemsBackupKeyOfSections(st, name, itemsToSave, now, f) ==
  IF f = 1 THEN [store |-> st, result |-> "throw"]
  ELSE LET s1 == setItem(st, ITEMS \o name, Stringify(itemsToSave))
       IN [store |-> createBackup(s1, BACKUP_SECTIONS, itemsToSave, now, Sub(f, 2)).store,
           result |-> "ok"]

saveItems(st, name, itemsToSave, now, f) ==
  IF f = 1 THEN [store |-> st, result |-> "throw"]
  ELSE LET s1 == setItem(st, ITEMS \o name, Stringify(itemsToSave))
       IN [store |-> createBackup(s1, BACKUP_ITEMS \o name, itemsToSave, now, Sub(f, 2)).store,
           result |-> "ok"]

\* `[...a]`: a hole is read as undefined
Spread(s) == SeqMap(LAMBDA e : IF e = Hole THEN Undef ELSE e, s)

\* a bug: the replaced entry is built anew, with an id read from the clock
SpreadWithFreshId(e, text, m) ==
  [t |-> "obj", id |-> m, text |-> text, createdAt |-> m, lastModified |-> m]

\* `{...e, text: text, lastModified: m}`: spreading null or undefined adds nothing
SpreadWith(e, text, m) ==
  LET base == IF e.t = "obj" THEN e ELSE Obj
  IN [k \in DOMAIN base \cup {"text", "lastModified"} |->
        IF k = "text" THEN text ELSE IF k = "lastModified" THEN m ELSE base[k]]

\* `a[index] = e` on a copy of the array s, index counted from 0 as in the code:
\* beyond the end the array grows and the skipped positions are holes; a negative
\* index sets a property that is no element, so the elements are unchanged.
AssignAt(s, index, e) ==
  IF index < 0 THEN s
  ELSE [i \in 1..(IF index + 1 > Len(s) THEN index + 1 ELSE Len(s)) |->
          IF i = index + 1 THEN e ELSE IF i <= Len(s) THEN s[i] ELSE Hole]
ElemAt(s, index) == IF index >= 0 /\ index < Len(s) THEN s[index + 1] ELSE Undef

\* An Item Store operation yields [store, items, sets, result, error]; sets
\* lists the values it passed to setItems, in the order of the calls.
ItemThrown(st, its, sets, e) ==
  [store |-> st, items |-> its, sets |-> sets, result |-> "throw", error |-> e]

addItem(st, its, name, text, now, f) ==
  LET newItem == [t |-> "obj", id |-> now, text |-> text, createdAt |-> now, lastModified |-> now]
  IN IF ~IsArray(its) THEN ItemThrown(st, its, <<its>>, "TypeError")
     ELSE LET newItems == Arr(<<newItem>> \o Spread(its.v))
              sv == saveItems(st, name, newItems, now, f)
          IN IF sv.result = "throw" THEN ItemThrown(sv.store, its, <<newItems, its>>, "storage")
             ELSE [store |-> sv.store, items |-> newItems, sets |-> <<newItems>>,
                   result |-> "ok", error |-> ""]

updateItem(st, its, name, index, text, now, f) ==
  IF ~IsArray(its) THEN ItemThrown(st, its, <<its>>, "TypeError")
  ELSE LET copy == Spread(its.v)
           updatedItems == Arr(AssignAt(copy, index, SpreadWith(ElemAt(copy, index), text, now)))
           sv == saveItems(st, name, updatedItems, now, f)
       IN IF sv.result = "throw"
            THEN ItemThrown(sv.store, its, <<updatedItems, its>>, "storage")
          ELSE [store |-> sv.store, items |-> updatedItems, sets |-> <<updatedItems>>,
                result |-> "ok", error |-> ""]

\* `filter` does not visit the holes of a sparse array
deleteItem(st, its, name, index, now, f) ==
  IF ~IsArray(its) THEN ItemThrown(st, its, <<its>>, "TypeError")
  ELSE LET updatedItems == Arr(SelectIdx(its.v, LAMBDA i : its.v[i] # Hole /\ i - 1 # index))
           sv == saveItems(st, name, updatedItems, now, f)
       IN IF sv.result = "throw"
            THEN ItemThrown(sv.store, its, <<updatedItems, its>>, "storage")
          ELSE [store |-> sv.store, items |-> updatedItems, sets |-> <<updatedItems>>,
                result |-> "ok", error |-> ""]

\* no revert: the catch of clearAllItems only rethrows
clearAllItems(st, its, name, now, f) ==
  LET sv == saveItems(st, name, Arr(<< >>), now, f)
  IN IF sv.result = "throw" THEN ItemThrown(sv.store, Arr(<< >>), <<Arr(<< >>)>>, "storage")
     ELSE [store |-> sv.store, items |-> Arr(<< >>), sets |-> <<Arr(<< >>)>>,
           result |-> "ok", error |-> ""]

\* ------------------------------------------------------ Archive Manager
\* An object used as a mapping (the `items` of a snapshot): its properties in
\* insertion order, each <<name, value>>.
ItemsObj(es) == [t |-> "obj", entries |-> es]
Prop(o, name) ==
  IF \E i \in 1..Len(o.entries) : o.entries[i][1] = name
    THEN o.entries[CHOOSE i \in 1..Len(o.entries) : o.entries[i][1] = name][2]
    ELSE Undef
\* `o[name] = value`: a new property goes last, an old one keeps its place
SetProp(o, name, value) ==
  IF \E i \in 1..Len(o.entries) : o.entries[i][1] = name
    THEN ItemsObj([i \in 1..Len(o.entries) |->
                    IF o.entries[i][1] = name THEN <<name, value>> ELSE o.entries[i]])
    ELSE ItemsObj(Append(o.entries, <<name, value>>))

\* the sum `totalItems += items.length` when some `items` has no length
NaN == -1
AppName == "Diary App"

\* a bug: the items are read under the section name without the key prefix,
\* so that every section is collected as empty
collectItemsNoPrefix(st, secs, i, k, f, acc) ==
  IF f >= k /\ f < k + Len(secs) - i + 1 THEN [result |-> "throw", error |-> "storage"]
  ELSE [result |-> "ok", totalItems |-> 0,
        allItems |-> ItemsObj(SeqMap(LAMBDA n : <<n, Arr(<< >>)>>, Dedup(secs)))]

RECURSIVE collectItems(_, _, _, _, _, _)
\* the loop of collectAllData from section number i on; call k is the next read
collectItems(st, secs, i, k, f, acc) ==
  IF i > Len(secs) THEN [result |-> "ok", allItems |-> acc.allItems, totalItems |-> acc.totalItems]
  ELSE IF f = k THEN [result |-> "throw", error |-> "storage"]
  ELSE LET itemsString == getItem(st, ITEMS \o secs[i])
           its == IF itemsString # Absent THEN Parse(itemsString) ELSE Arr(<< >>)
       IN IF its = NullV THEN [result |-> "throw", error |-> "TypeError"]
          ELSE collectItems(st, secs, i + 1, k + 1, f,
                 [allItems |-> SetProp(acc.allItems, secs[i], its),
                  totalItems |-> IF IsArray(its) /\ acc.totalItems # NaN
                                   THEN acc.totalItems + Len(its.v) ELSE NaN])

collectAllData(st, now, f) ==
  IF f = 1 THEN [result |-> "throw", error |-> "storage"]
  ELSE LET sectionsString == getItem(st, SECTIONS)
           secs == IF sectionsString # Absent THEN Parse(sectionsString) ELSE StrArr(<< >>)
           c == collectItems(st, secs.v, 1, 2, f, [allItems |-> ItemsObj(<< >>), totalItems |-> 0])
       IN IF c.result = "throw" THEN c
          ELSE [result |-> "ok",
                data |-> [t |-> "obj",
                          metadata |-> [t |-> "obj", version |-> "1.0", timestamp |-> now,
                                        appName |-> AppName, totalSections |-> Len(secs.v),
                                        totalItems |-> c.totalItems],
                          sections |-> secs,
                          items |-> c.allItems,
                          totalItems |-> c.totalItems]]

\* the archive's getBackupInfo: the counts of a fresh collectAllData, or null
getBackupInfo(st, now, f) ==
  LET c == collectAllData(st, now, f)
  IN IF c.result = "throw" THEN NullV
     ELSE [t |-> "obj", sections |-> Len(c.data.sections.v), totalItems |-> c.data.totalItems,
           lastModified |-> now]
\* the store reads collectAllData makes
collectCalls(st) ==
  LET sectionsString == getItem(st, SECTIONS)
  IN 1 + (IF sectionsString # Absent THEN Len(Parse(sectionsString).v) ELSE 0)

\* w, the step after the reads that fails: 0 none, 1 the file write, 2 the share
exportBackup(st, now, f, w) ==
  LET c == collectAllData(st, now, f)
  IN IF c.result = "throw" THEN [result |-> "failed", file |-> Absent]
     ELSE IF w = 1 THEN [result |-> "failed", file |-> Absent]
     ELSE IF w = 2 THEN [result |-> "failed", file |-> Stringify(c.data)]
     ELSE [result |-> "ok", file |-> Stringify(c.data)]

validateBackupData(data) ==
  LET bad(e) == [isValid |-> FALSE, error |-> e]
  IN IF ~Truthy(data) THEN bad("No data found")
     ELSE IF ~Truthy(data.metadata) \/ ~Truthy(data.sections) \/ ~Truthy(data.items)
       THEN bad("Missing required fields")
     ELSE IF ~IsArray(data.sections) THEN bad("Sections must be an array")
     ELSE IF data.items.t \notin {"obj", "arr"} THEN bad("Items must be an object")
     ELSE LET wrong(i) == LET v == Prop(data.items, data.sections.v[i])
                          IN Truthy(v) /\ ~IsArray(v)
          IN IF \E i \in 1..Len(data.sections.v) : wrong(i)
               THEN LET first == CHOOSE i \in 1..Len(data.sections.v) :
                                   wrong(i) /\ \A j \in 1..(i - 1) : ~wrong(j)
                    IN bad("Items for section \"" \o data.sections.v[first]
                           \o "\" must be an array")
               ELSE [isValid |-> TRUE, error |-> ""]

RestoreThrown(st, e) == [store |-> st, result |-> "throw", error |-> e]

RECURSIVE removeAll(_, _, _, _, _)
\* replace mode, step 1: the removal loop from section number i on
removeAll(st, secs, i, k, f) ==
  IF i > Len(secs) THEN [store |-> st, result |-> "ok"]
  ELSE IF f = k THEN RestoreThrown(st, "storage")
  ELSE removeAll(removeItem(st, ITEMS \o secs[i]), secs, i + 1, k + 1, f)

RECURSIVE writeAll(_, _, _, _, _)
\* replace mode, step 3: the write loop from property number i on
writeAll(st, es, i, k, f) ==
  IF i > Len(es) THEN [store |-> st, result |-> "ok", error |-> ""]
  ELSE IF f = k THEN RestoreThrown(st, "storage")
  ELSE writeAll(setItem(st, ITEMS \o es[i][1], Stringify(es[i][2])), es, i + 1, k + 1, f)

\* `item.id`, as a key of the Set of ids: <<id>>, or << >> for undefined
IdOf(item) == IF "id" \in DOMAIN item THEN <<item.id>> ELSE << >>
\* reading `.id` of null or undefined throws
HasNoProps(s) == \E i \in 1..Len(s) : s[i].t \in {"null", "undefined", "hole"}

\* a bug: incoming entries are appended whatever their id
mergeItemsNoFilter(existingItems, newItems) == Arr(existingItems.v \o newItems.v)

\* a bug: the incoming entries are put before the stored ones
mergeItemsPrepend(existingItems, newItems) ==
  LET existingIds == {IdOf(existingItems.v[i]) : i \in 1..Len(existingItems.v)}
  IN Arr(SelectSeq(newItems.v, LAMBDA item : IdOf(item) \notin existingIds)
           \o existingItems.v)

mergeItems(existingItems, newItems) ==
  LET existingIds == {IdOf(existingItems.v[i]) : i \in 1..Len(existingItems.v)}
      itemsToAdd == SelectSeq(newItems.v, LAMBDA item : IdOf(item) \notin existingIds)
  IN Arr(existingItems.v \o itemsToAdd)

RECURSIVE mergeAll(_, _, _, _, _)
\* merge mode, step 4: the merge loop from property number i on
mergeAll(st, es, i, k, f) ==
  IF i > Len(es) THEN [store |-> st, result |-> "ok", error |-> ""]
  ELSE IF f = k THEN RestoreThrown(st, "storage")
  ELSE LET itemsKey == ITEMS \o es[i][1]
           newItems == es[i][2]
           existingItemsString == getItem(st, itemsKey)
           existingItems == IF existingItemsString # Absent
                              THEN Parse(existingItemsString) ELSE Arr(<< >>)
       IN IF ~IsArray(existingItems) \/ HasNoProps(existingItems.v)
            THEN RestoreThrown(st, "TypeError")
          ELSE IF ~IsArray(newItems) \/ HasNoProps(newItems.v)
            THEN RestoreThrown(st, "TypeError")
          ELSE IF f = k + 1 THEN RestoreThrown(st, "storage")
          ELSE mergeAll(setItem(st, itemsKey, Stringify(mergeItems(existingItems, newItems))),
                        es, i + 1, k + 2, f)

\* a bug: replace mode removes the backups of the sections it clears as well
restoreDataDropsBackups(st, backupData, replaceExisting, f) ==
  IF f = 1 THEN RestoreThrown(st, "storage")
  ELSE
    LET currentSectionsString == getItem(st, SECTIONS)
        currentSections == IF currentSectionsString # Absent
                             THEN Parse(currentSectionsString) ELSE StrArr(<< >>)
        n == Len(currentSections.v)
    IN IF replaceExisting
         THEN LET rm == removeAll(st, currentSections.v, 1, 2, f)
                  cleared == [key \in Keys |->
                                IF \E i \in 1..n : key = BACKUP_ITEMS \o currentSections.v[i]
                                  THEN Absent ELSE rm.store[key]]
              IN IF rm.result = "throw" THEN rm
                 ELSE IF f = n + 2 THEN RestoreThrown(cleared, "storage")
                 ELSE writeAll(setItem(cleared, SECTIONS, Stringify(backupData.sections)),
                               backupData.items.entries, 1, n + 3, f)
         ELSE LET mergedSections ==
                    StrArr(Dedup(currentSections.v \o backupData.sections.v))
              IN IF f = 2 THEN RestoreThrown(st, "storage")
                 ELSE mergeAll(setItem(st, SECTIONS, Stringify(mergedSections)),
                               backupData.items.entries, 1, 3, f)
restoreData(st, backupData, replaceExisting, f) ==
  IF f = 1 THEN RestoreThrown(st, "storage")
  ELSE
    LET currentSectionsString == getItem(st, SECTIONS)
        currentSections == IF currentSectionsString # Absent
                             THEN Parse(currentSectionsString) ELSE StrArr(<< >>)
        n == Len(currentSections.v)
    IN IF replaceExisting
         THEN LET rm == removeAll(st, currentSections.v, 1, 2, f)
              IN IF rm.result = "throw" THEN rm
                 ELSE IF f = n + 2 THEN RestoreThrown(rm.store, "storage")
                 ELSE writeAll(setItem(rm.store, SECTIONS, Stringify(backupData.sections)),
                               backupData.items.entries, 1, n + 3, f)
         ELSE LET mergedSections ==
                    StrArr(Dedup(currentSections.v \o backupData.sections.v))
              IN IF f = 2 THEN RestoreThrown(st, "storage")
                 ELSE mergeAll(setItem(st, SECTIONS, Stringify(mergedSections)),
                               backupData.items.entries, 1, 3, f)

\* the store calls restoreData makes at most
restoreCalls(st, backupData, replaceExisting) ==
  LET currentSectionsString == getItem(st, SECTIONS)
      n == IF currentSectionsString # Absent THEN Len(Parse(currentSectionsString).v) ELSE 0
      m == Len(backupData.items.entries)
  IN IF replaceExisting THEN 2 + n + m ELSE 2 + 2 * m

\* a bug: the data is restored before the answer to the prompt is looked at
importBackupRestoresUnasked(st, replaceExisting, pick, content, confirmRestore, f) ==
  LET out(s, r, e) == [store |-> s, result |-> r, error |-> e]
  IN IF pick = "canceled" THEN out(st, "cancelled", "")
     ELSE IF pick = "unreadable" THEN out(st, "failed", "io")
     ELSE IF ParseThrows(content) THEN out(st, "failed", "SyntaxError")
     ELSE IF ~validateBackupData(Parse(content)).isValid
       THEN out(st, "invalid", validateBackupData(Parse(content)).error)
     ELSE LET r == restoreData(st, Parse(content), replaceExisting, f)
          IN IF ~confirmRestore THEN out(r.store, "cancelled", "")
             ELSE IF r.result = "throw" THEN out(r.store, "failed", r.error)
             ELSE out(r.store, "ok", "")

\* pick: "canceled", "unreadable" (the picker or the file read throws) or "file"
importBackup(st, replaceExisting, pick, content, confirmRestore, f) ==
  LET out(s, r, e) == [store |-> s, result |-> r, error |-> e]
  IN IF pick = "canceled" THEN out(st, "cancelled", "")
     ELSE IF pick = "unreadable" THEN out(st, "failed", "io")
     ELSE IF ParseThrows(content) THEN out(st, "failed", "SyntaxError")
     ELSE LET backupData == Parse(content)
              validationResult == validateBackupData(backupData)
          IN IF ~validationResult.isValid THEN out(st, "invalid", validationResult.error)
             ELSE IF ~confirmRestore THEN out(st, "cancelled", "")
             ELSE LET r == restoreData(st, backupData, replaceExisting, f)
                  IN IF r.result = "throw" THEN out(r.store, "failed", r.error)
                     ELSE out(r.store, "ok", "")

\* ---------------------------------------------------- the files imported
DocEntry(id) == [t |-> "obj", id |-> id, text |-> "z", createdAt |-> id, lastModified |-> id]
DocFull == Arr(<<DocEntry(1), DocEntry(2)>>)
DocDup == Arr(<<DocEntry(1), DocEntry(1)>>)
\* a list, a list that repeats an id, null, and an object that is no array
DocValues == {DocFull, DocDup, NullV, Obj}
\* no property, one property, or two in either order
DocItems ==
  {ItemsObj(<< >>)}
    \cup {ItemsObj(<< <<n, v>> >>) : n \in Typed, v \in DocValues}
    \cup {ItemsObj(<< <<"A", DocFull>>, <<"B", v>> >>) : v \in {DocDup, Obj}}
    \cup {ItemsObj(<< <<"B", DocDup>>, <<"A", DocFull>> >>)}
DocSections == {<<"A">>, <<"C", "A">>, <<"B", "B">>}
Doc(m, secs, its) == [t |-> "obj", metadata |-> m, sections |-> secs, items |-> its, totalItems |-> 0]
DocMeta == [t |-> "obj", version |-> "1.0", timestamp |-> 0, appName |-> AppName,
            totalSections |-> 0, totalItems |-> 0]
WellFormed == {Doc(DocMeta, StrArr(secs), its) : secs \in DocSections, its \in DocItems}
Malformed ==
  {NullV,
   Doc(Undef, StrArr(<<"A">>), ItemsObj(<< >>)),
   Doc(DocMeta, Undef, ItemsObj(<< >>)),
   Doc(DocMeta, StrArr(<<"A">>), Undef),
   Doc(DocMeta, Str, ItemsObj(<< >>)),
   Doc(DocMeta, StrArr(<<"A">>), Str)}
FileContents == {BadJson} \cup {[json |-> d] : d \in WellFormed \cup Malformed}
\* what the user does at the file picker
Picks == {[kind |-> "canceled", content |-> BadJson], [kind |-> "unreadable", content |-> BadJson]}
           \cup {[kind |-> "file", content |-> c] : c \in FileContents}

\* -------------------------------------------------------------- actions
\* no call is in flight
NoCall == [pc |-> "idle"]
NoFlow == [op |-> "none"]
Quiet ==
  /\ rendered = Arr(<< >>)
  /\ calls = [c \in {1, 2} |-> NoCall]
  /\ flow = NoFlow
  /\ isProcessing = FALSE

Init ==
  /\ store = EmptyStore
  /\ sections = StrArr(<< >>)
  /\ sectionName = ""
  /\ items = Arr(<< >>)
  /\ clock = 1
  /\ fails = 0
  /\ ops = 0
  /\ imports = 0
  /\ last = [op |-> "init", result |-> "ok"]
  /\ Quiet

\* the clock readings an operation can see: time does not go back
Readings == {n \in {clock, clock + 1} : n <= MaxClock}

\* the choices of the failing call among the n calls an operation makes (0: none)
Faults(n) == IF fails < MaxFails THEN 0..n ELSE {0}
Failed(f) == fails' = IF f = 0 THEN fails ELSE fails + 1
ReadFaults == IF fails < MaxFails THEN BOOLEAN ELSE {FALSE}
ReadFailed(r) == fails' = IF r THEN fails + 1 ELSE fails

\* one more operation of the run, run to its end as one step: the handlers
\* run one at a time, each from a render of the current state, and no call is
\* left in flight (isProcessing is set and reset within the step); imp: it
\* is an import
Counted(imp) ==
  /\ ops < MaxOps
  /\ ops' = ops + 1
  /\ IF imp THEN imports < MaxImports /\ imports' = imports + 1 ELSE imports' = imports
  /\ UNCHANGED <<rendered, calls, flow, isProcessing>>

\* the Section Store mounts or reloadSections is called
LoadSections ==
  /\ Counted(FALSE)
  /\ sectionName = ""
  /\ \E r \in ReadFaults :
       /\ ReadFailed(r)
       /\ sections' = loadSections(store, r)
       /\ last' = [op |-> "loadSections", result |-> IF r THEN "caught" ELSE "ok"]
  /\ UNCHANGED <<store, sectionName, items, clock>>

SectionOp(op, name, newName, res, now, f) ==
  /\ Failed(f)
  /\ store' = res.store
  /\ sections' = res.sections
  /\ clock' = now
  /\ last' = [op |-> op, name |-> name, newName |-> newName, fault |-> f,
              had |-> getItem(store, ITEMS \o name) # Absent,
              sets |-> res.sets, result |-> res.result, error |-> res.error]
  /\ UNCHANGED <<sectionName, items>>

\* Sidebar.handleAddSection: the typed name is not blank
AddSection ==
  /\ Counted(FALSE)
  /\ sectionName = ""
  /\ Len(sections.v) < MaxSections
  /\ \E name \in Typed, now \in Readings, f \in Faults(3) :
       SectionOp("addSection", name, "", addSection(store, sections, name, now, f), now, f)

\* Sidebar.handleDelete: the section selected in the displayed list
DeleteSection ==
  /\ Counted(FALSE)
  /\ sectionName = ""
  /\ \E name \in Names, now \in Readings, f \in Faults(5) :
       /\ Includes(sections.v, name)
       /\ SectionOp("deleteSection", name, "", deleteSection(store, sections, name, now, f), now, f)

\* Sidebar.handleRename: a section of the displayed list, a new name that differs
RenameSection ==
  /\ Counted(FALSE)
  /\ sectionName = ""
  /\ \E oldName \in Names, newName \in Typed, now \in Readings :
       /\ Includes(sections.v, oldName)
       /\ newName # oldName
       /\ \E f \in Faults(renameCalls(store, sections, oldName, newName)) :
            SectionOp("renameSection", oldName, newName,
                      renameSection(store, sections, oldName, newName, now, f), now, f)

\* the item screen of a listed section is opened: useDiaryItems mounts and loads
OpenSection ==
  /\ Counted(FALSE)
  /\ sectionName = ""
  /\ \E name \in Names, r \in ReadFaults :
       /\ ReadFailed(r)
       /\ Includes(sections.v, name)
       /\ sectionName' = name
       /\ items' = loadItems(store, name, r)
       /\ last' = [op |-> "loadItems", name |-> name, result |-> IF r THEN "caught" ELSE "ok"]
  /\ UNCHANGED <<store, sections, clock>>

\* router.back(): the item screen and its hook state are gone
CloseSection ==
  /\ Counted(FALSE)
  /\ sectionName # ""
  /\ sectionName' = ""
  /\ items' = Arr(<< >>)
  /\ last' = [op |-> "back", result |-> "ok"]
  /\ UNCHANGED <<store, sections, clock, fails>>

ItemOp(op, index, text, res, now, f) ==
  /\ Failed(f)
  /\ store' = res.store
  /\ items' = res.items
  /\ clock' = now
  /\ last' = [op |-> op, name |-> sectionName, index |-> index, text |-> text, fault |-> f,
              sets |-> res.sets, result |-> res.result, error |-> res.error]
  /\ UNCHANGED <<sections, sectionName>>

ItemsLen == IF IsArray(items) THEN Len(items.v) ELSE 0
\* the store calls addItem, updateItem and deleteItem make: none when the
\* in-memory value is no array, for they throw before saveItems
itemCalls == IF IsArray(items) THEN 3 ELSE 0

AddItem ==
  /\ Counted(FALSE)
  /\ sectionName # ""
  /\ ItemsLen < MaxItems
  /\ \E text \in Texts, now \in Readings, f \in Faults(itemCalls) :
       ItemOp("addItem", 0, text, addItem(store, items, sectionName, text, now, f), now, f)

UpdateItem ==
  /\ Counted(FALSE)
  /\ sectionName # ""
  /\ \E index \in -1..(MaxItems - 1), text \in Texts, now \in Readings,
        f \in Faults(itemCalls) :
       ItemOp("updateItem", index, text,
              updateItem(store, items, sectionName, index, text, now, f), now, f)

DeleteItem ==
  /\ Counted(FALSE)
  /\ sectionName # ""
  /\ \E index \in -1..MaxItems, now \in Readings, f \in Faults(itemCalls) :
       ItemOp("deleteItem", index, "", deleteItem(store, items, sectionName, index, now, f), now, f)

ClearAllItems ==
  /\ Counted(FALSE)
  /\ sectionName # ""
  /\ \E now \in Readings, f \in Faults(3) :
       ItemOp("clearAllItems", 0, "", clearAllItems(store, items, sectionName, now, f), now, f)

\* BackupButton.handleExport
ExportBackup ==
  /\ Counted(FALSE)
  /\ sectionName = ""
  /\ \E now \in Readings, f \in Faults(collectCalls(store)), w \in 0..2 :
       /\ f # 0 => w = 0
       /\ Failed(f)
       /\ clock' = now
       /\ LET r == exportBackup(store, now, f, w)
          IN last' = [op |-> "exportBackup", result |-> r.result, file |-> r.file]
  /\ UNCHANGED <<store, sections, sectionName, items>>

\* the confirmation prompt is reached and restoreData runs
Restores(pick, confirmRestore) ==
  /\ pick.kind = "file"
  /\ ~ParseThrows(pick.content)
  /\ validateBackupData(Parse(pick.content)).isValid
  /\ confirmRestore

\* BackupButton.handleImportMerge / handleImportReplace
ImportBackup ==
  /\ Counted(TRUE)
  /\ sectionName = ""
  /\ \E replaceExisting \in BOOLEAN, pick \in Picks :
       \E confirmRestore \in IF Restores(pick, TRUE) THEN BOOLEAN ELSE {FALSE} :
         \E f \in Faults(IF Restores(pick, confirmRestore)
                           THEN restoreCalls(store, Parse(pick.content), replaceExisting)
                           ELSE 0) :
           LET r == importBackup(store, replaceExisting, pick.kind, pick.content,
                                 confirmRestore, f)
           IN /\ Failed(f)
              /\ store' = r.store
              /\ last' = [op |-> "importBackup", replace |-> replaceExisting, fault |-> f,
                          pick |-> pick.kind, content |-> pick.content,
                          confirm |-> confirmRestore, result |-> r.result, error |-> r.error]
  /\ UNCHANGED <<sections, sectionName, items, clock>>

Next ==
  \/ LoadSections
  \/ AddSection
  \/ DeleteSection
  \/ RenameSection
  \/ OpenSection
  \/ CloseSection
  \/ AddItem
  \/ UpdateItem
  \/ DeleteItem
  \/ ClearAllItems
  \/ ExportBackup
  \/ ImportBackup

Spec == Init /\ [][Next]_vars

\* ------------------------------------------- the backup utility on its own
\* createBackup and restoreFromBackup are exported and take any key: they are
\* run here over stores whose backup keys may hold what the app did not
\* write (a string that is no JSON, JSON that is no envelope).
BackupKeys == {BACKUP_SECTIONS, BACKUP_ITEMS \o "A"}
Foreign == {BadJson, Stringify(NullV), Stringify(Obj), Stringify(StrArr(<<"A">>))}
BackupData == {StrArr(<<"A">>), Arr(<< >>), Arr(<<Obj, Hole>>)}

BackupInit ==
  /\ store \in {[EmptyStore EXCEPT ![BACKUP_SECTIONS] = a, ![BACKUP_ITEMS \o "A"] = b] :
                  a, b \in {Absent} \cup Foreign}
  /\ sections = StrArr(<< >>)
  /\ sectionName = ""
  /\ items = Arr(<< >>)
  /\ clock = 1
  /\ fails = 0
  /\ ops = 0
  /\ imports = 0
  /\ last = [op |-> "init", result |-> "ok"]
  /\ Quiet

CreateBackup ==
  /\ Counted(FALSE)
  /\ \E backupKey \in BackupKeys, data \in BackupData, now \in Readings, f \in Faults(2) :
       /\ Failed(f)
       /\ store' = createBackup(store, backupKey, data, now, f).store
       /\ clock' = now
       /\ last' = [op |-> "createBackup", key |-> backupKey, data |-> data, fault |-> f,
                   ok |-> createBackup(store, backupKey, data, now, f).ok]
  /\ UNCHANGED <<sections, sectionName, items>>

RestoreFromBackup ==
  /\ Counted(FALSE)
  /\ \E backupKey \in BackupKeys, r \in ReadFaults :
       /\ ReadFailed(r)
       /\ last' = [op |-> "restoreFromBackup", key |-> backupKey, fault |-> r,
                   value |-> restoreFromBackup(store, backupKey, r)]
  /\ UNCHANGED <<store, sections, sectionName, items, clock>>

BackupNext ==
  \/ CreateBackup
  \/ RestoreFromBackup

BackupSpec == BackupInit /\ [][BackupNext]_vars
\* ------------------------------------------------ addItem calls that overlap
\* The item screen of section "A" is mounted. addItem is an async function:
\* it runs up to its first await (the write of saveItems) when called, and a
\* second call can be made before the first has gone on, and before the
\* screen has rendered again, so that both close over the same `items`.
RaceSection == "A"
Callers == {1, 2}
RaceStores ==
  {setItem(EmptyStore, SECTIONS, Stringify(StrArr(<<RaceSection>>))),
   setItem(setItem(EmptyStore, SECTIONS, Stringify(StrArr(<<RaceSection>>))),
           ITEMS \o RaceSection,
           Stringify(Arr(<< [t |-> "obj", id |-> 1, text |-> "x", createdAt |-> 1,
                             lastModified |-> 1] >>)))}

RaceInit ==
  /\ store \in RaceStores
  /\ sections = StrArr(<<RaceSection>>)
  /\ sectionName = RaceSection
  /\ items = loadItems(store, RaceSection, FALSE)
  /\ rendered = items
  /\ calls = [c \in Callers |-> NoCall]
  /\ flow = NoFlow
  /\ isProcessing = FALSE
  /\ clock = 1
  /\ fails = 0
  /\ ops = 0
  /\ imports = 0
  /\ last = [op |-> "init", result |-> "ok"]

\* not the code: the new list is built from the current state (a functional
\* update), not from the list the handler closed over
newItemsFromState(seen, state, newItem) == Arr(<<newItem>> \o Spread(state.v))

\* `[newItem, ...items]`: items is the list the handler closed over
newItemsOf(seen, state, newItem) == Arr(<<newItem>> \o Spread(seen.v))

\* addItem up to its first await: the entry and the new list are built, the
\* new list is set in memory; caller 1 is the one that calls first
AddItemStart ==
  \E c \in Callers, text \in Texts, now \in Readings :
    /\ calls[c].pc = "idle"
    /\ c = 2 => calls[1].pc # "idle"
    /\ LET newItem == [t |-> "obj", id |-> now, text |-> text, createdAt |-> now,
                       lastModified |-> now]
           newItems == newItemsOf(rendered, items, newItem)
       IN /\ items' = newItems
          /\ calls' = [calls EXCEPT ![c] = [pc |-> "write", seen |-> rendered,
                                            newItem |-> newItem, newItems |-> newItems,
                                            result |-> ""]]
    /\ clock' = now
    /\ UNCHANGED <<store, sections, sectionName, rendered, fails, ops, imports, last,
                   flow, isProcessing>>

\* saveItems' write resolves: done, or rejected, and then the catch of
\* addItem sets the list it closed over and rethrows
AddItemWrite ==
  \E c \in Callers, f \in Faults(1) :
    /\ calls[c].pc = "write"
    /\ Failed(f)
    /\ IF f = 1
         THEN /\ items' = calls[c].seen
              /\ calls' = [calls EXCEPT ![c].pc = "done", ![c].result = "throw"]
              /\ store' = store
         ELSE /\ store' = setItem(store, ITEMS \o RaceSection, Stringify(calls[c].newItems))
              /\ calls' = [calls EXCEPT ![c].pc = "backup"]
              /\ items' = items
    /\ UNCHANGED <<sections, sectionName, rendered, clock, ops, imports, last,
                   flow, isProcessing>>

\* createBackup of saveItems (its two writes taken together), then addItem
\* returns the entry
AddItemBackup ==
  \E c \in Callers, now \in Readings, f \in Faults(2) :
    /\ calls[c].pc = "backup"
    /\ Failed(f)
    /\ store' = createBackup(store, BACKUP_ITEMS \o RaceSection, calls[c].newItems, now, f).store
    /\ calls' = [calls EXCEPT ![c].pc = "done", ![c].result = "ok"]
    /\ clock' = now
    /\ UNCHANGED <<sections, sectionName, items, rendered, ops, imports, last,
                   flow, isProcessing>>

\* the screen renders again: its handlers close over the current state
Render ==
  /\ rendered # items
  /\ rendered' = items
  /\ UNCHANGED <<store, sections, sectionName, items, clock, fails, ops, imports, last,
                 calls, flow, isProcessing>>

RaceNext ==
  \/ AddItemStart
  \/ AddItemWrite
  \/ AddItemBackup
  \/ Render

RaceSpec == RaceInit /\ [][RaceNext]_vars
\* --------------------------------------- loads of the Item Store in flight
\* useDiaryItems starts loadItems when it mounts and whenever its section
\* name changes. A load reads the key of the name it was started with and
\* sets the in-memory list when its read resolves; nothing cancels a load
\* that is still waiting when the name changes.
LoadStores ==
  {setItem(setItem(EmptyStore, SECTIONS, Stringify(StrArr(<<"A", "B">>))),
           ITEMS \o "A", Stringify(Arr(<< [t |-> "obj", id |-> 1, text |-> t, createdAt |-> 1,
                                          lastModified |-> 1] >>))) : t \in Texts}
    \cup
  {setItem(setItem(setItem(EmptyStore, SECTIONS, Stringify(StrArr(<<"A", "B">>))),
                   ITEMS \o "A", Stringify(Arr(<< [t |-> "obj", id |-> 1, text |-> "x",
                                                  createdAt |-> 1, lastModified |-> 1] >>))),
           ITEMS \o "B", Stringify(Arr(<< [t |-> "obj", id |-> 2, text |-> t, createdAt |-> 2,
                                          lastModified |-> 2] >>))) : t \in Texts}

\* the screen has mounted with a section name and its first load is waiting
LoadInit ==
  /\ store \in LoadStores
  /\ sections = loadSections(store, FALSE)
  /\ sectionName \in Typed
  /\ items = Arr(<< >>)
  /\ rendered = Arr(<< >>)
  /\ calls = [c \in Callers |-> IF c = 1 THEN [pc |-> "read", name |-> sectionName]
                                 ELSE NoCall]
  /\ flow = NoFlow
  /\ isProcessing = FALSE
  /\ clock = 1
  /\ fails = 0
  /\ ops = 0
  /\ imports = 0
  /\ last = [op |-> "init", result |-> "ok"]

\* the section name changes: the effect starts a load for the new name
SectionNameChanges ==
  /\ calls[2] = NoCall
  /\ \E name \in Names :
       /\ name # sectionName
       /\ sectionName' = name
       /\ calls' = [calls EXCEPT ![2] = [pc |-> "read", name |-> name]]
  /\ UNCHANGED <<store, sections, items, clock, fails, ops, imports, last, rendered,
                 flow, isProcessing>>

\* the read of a load resolves or rejects, and the load sets the list
LoadResolved ==
  \E c \in Callers, r \in ReadFaults :
    /\ calls[c].pc = "read"
    /\ ReadFailed(r)
    /\ items' = loadItems(store, calls[c].name, r)
    /\ calls' = [calls EXCEPT ![c].pc = "done"]
    /\ UNCHANGED <<store, sections, sectionName, clock, ops, imports, last, rendered,
                   flow, isProcessing>>

LoadNext ==
  \/ SectionNameChanges
  \/ LoadResolved

LoadSpec == LoadInit /\ [][LoadNext]_vars
\* ------------------------------------------- collectAllData read by read
\* collectAllData awaits every read it makes: the section list first, then
\* the items key of each listed section in turn. The Section Store is not
\* held back while it runs (only the backup buttons are disabled), so a
\* deleteSection or a renameSection can run between two of its reads.
SnapEntry(id) == [t |-> "obj", id |-> id, text |-> "x", createdAt |-> 1, lastModified |-> 1]
SnapLists == {<<"A">>, <<"A", "B">>}
SnapItems == {Arr(<< >>), Arr(<<SnapEntry(1)>>)}
\* stores the Section Store and the Item Store build: a list of one or two
\* sections, each with no items key yet or with one entry
SnapStores ==
  {LET s0 == setItem(EmptyStore, SECTIONS, Stringify(StrArr(l)))
       s1 == IF a = Arr(<< >>) THEN s0 ELSE setItem(s0, ITEMS \o "A", Stringify(a))
   IN IF b = Arr(<< >>) \/ Len(l) = 1 THEN s1 ELSE setItem(s1, ITEMS \o "B", Stringify(b))
   : l \in SnapLists, a \in SnapItems, b \in SnapItems}

SnapInit ==
  /\ store \in SnapStores
  /\ sections = loadSections(store, FALSE)
  /\ sectionName = ""
  /\ items = Arr(<< >>)
  /\ rendered = Arr(<< >>)
  /\ calls = [c \in Callers |-> NoCall]
  /\ flow = NoFlow
  /\ isProcessing = FALSE
  /\ clock = 1
  /\ fails = 0
  /\ ops = 0
  /\ imports = 0
  /\ last = [op |-> "init", result |-> "ok"]

\* the collect has read everything it listed
Collected(secs, i) == i > Len(secs)

\* collectAllData is called: its first read, of the section list, resolves.
\* `seen` keeps every content the store has had since this read.
CollectStart ==
  /\ flow = NoFlow
  /\ LET sectionsString == getItem(store, SECTIONS)
         secs == IF sectionsString # Absent THEN Parse(sectionsString) ELSE StrArr(<< >>)
     IN flow' = [op |-> "collectAllData",
                 pc |-> IF Collected(secs.v, 1) THEN "done" ELSE "items",
                 secs |-> secs.v, i |-> 1,
                 allItems |-> ItemsObj(<< >>), totalItems |-> 0,
                 result |-> "ok", seen |-> {store}]
  /\ UNCHANGED <<store, sections, sectionName, items, clock, fails, ops, imports, last,
                 rendered, calls, isProcessing>>

\* the read of the next listed section's items resolves: one turn of the loop
CollectRead ==
  /\ flow # NoFlow /\ flow.pc = "items"
  /\ LET c == collectItems(store, <<flow.secs[flow.i]>>, 1, 2, 0,
                           [allItems |-> flow.allItems, totalItems |-> flow.totalItems])
     IN IF c.result = "throw"
          THEN flow' = [flow EXCEPT !.pc = "done", !.result = "throw"]
          ELSE flow' = [flow EXCEPT !.i = flow.i + 1,
                                    !.allItems = c.allItems,
                                    !.totalItems = c.totalItems,
                                    !.pc = IF Collected(flow.secs, flow.i + 1)
                                             THEN "done" ELSE "items"]
  /\ UNCHANGED <<store, sections, sectionName, items, clock, fails, ops, imports, last,
                 rendered, calls, isProcessing>>

\* a Section Store operation runs from its first store call to its last while
\* the collect waits (or before it starts); `moments` are the contents the
\* store has on the way: what it holds before each store call and at the end
Between(op, name, newName, res, now, moments) ==
  /\ IF flow = NoFlow THEN TRUE ELSE flow.pc = "items"
  /\ ops < MaxOps
  /\ ops' = ops + 1
  /\ SectionOp(op, name, newName, res, now, 0)
  /\ flow' = IF flow = NoFlow THEN flow
             ELSE [flow EXCEPT !.seen = flow.seen \cup moments]
  /\ UNCHANGED <<imports, rendered, calls, isProcessing>>

DeleteSectionBetween ==
  \E name \in Names, now \in Readings :
    /\ Includes(sections.v, name)
    /\ Between("deleteSection", name, "", deleteSection(store, sections, name, now, 0), now,
               {deleteSection(store, sections, name, now, f).store : f \in 0..5})

RenameSectionBetween ==
  \E oldName \in Names, newName \in Typed, now \in Readings :
    /\ Includes(sections.v, oldName)
    /\ newName # oldName
    /\ ~nameExists(sections, newName)
    /\ Between("renameSection", oldName, newName,
               renameSection(store, sections, oldName, newName, now, 0), now,
               {renameSection(store, sections, oldName, newName, now, f).store :
                  f \in 0..renameCalls(store, sections, oldName, newName)})

SnapNext ==
  \/ CollectStart
  \/ CollectRead
  \/ DeleteSectionBetween
  \/ RenameSectionBetween

SnapSpec == SnapInit /\ [][SnapNext]_vars

\* ------------------------------------ exportBackup and importBackup in steps
\* A call of the Archive Manager is followed from one await to the next. The
\* buttons that start a call are disabled while isProcessing is set
\* (BackupButton.jsx: disabled={isProcessing}), so one call is in flight at a
\* time.
FlowStores == {EmptyStore} \cup RaceStores

FlowInit ==
  /\ store \in FlowStores
  /\ sections = loadSections(store, FALSE)
  /\ sectionName = ""
  /\ items = Arr(<< >>)
  /\ clock = 1
  /\ fails = 0
  /\ ops = 0
  /\ imports = 0
  /\ last = [op |-> "init", result |-> "ok"]
  /\ Quiet

InFlight(op, pc) == flow.op = op /\ flow.pc = pc
\* the call goes on to pc
Goes(pc) == flow' = [flow EXCEPT !.pc = pc]
\* the call has its result and goes to its finally block; how: "return", or
\* "catch" when an exception brought it there
Ends(how, result, error) ==
  flow' = [flow EXCEPT !.pc = "finally", !.how = how, !.result = result, !.error = error]

\* `setIsProcessing(true)` and the call of the picker
StartImport ==
  /\ flow = NoFlow /\ ~isProcessing
  /\ ops < MaxOps /\ imports < MaxImports
  /\ ops' = ops + 1 /\ imports' = imports + 1
  /\ \E replaceExisting \in BOOLEAN :
       flow' = [op |-> "importBackup", pc |-> "picker", replace |-> replaceExisting,
                content |-> BadJson, confirm |-> FALSE, how |-> "", result |-> "",
                error |-> ""]
  /\ isProcessing' = TRUE
  /\ UNCHANGED <<store, sections, sectionName, items, clock, fails, last, rendered, calls>>

\* the picker is answered and, when a file was picked, the file is read
PickerAnswered ==
  /\ InFlight("importBackup", "picker")
  /\ \E pick \in Picks :
       \/ /\ pick.kind = "canceled"
          /\ Ends("return", "cancelled", "")
          /\ isProcessing' = FALSE
       \/ /\ pick.kind = "unreadable"
          /\ Ends("catch", "failed", "io")
          /\ isProcessing' = isProcessing
       \/ /\ pick.kind = "file"
          /\ flow' = [flow EXCEPT !.pc = "parse", !.content = pick.content]
          /\ isProcessing' = isProcessing
  /\ UNCHANGED <<store, sections, sectionName, items, clock, fails, ops, imports, last,
                 rendered, calls>>

\* not the code: a file that validates is restored without the prompt
afterParseUnasked(content) ==
  IF ParseThrows(content) THEN [pc |-> "finally", how |-> "catch", result |-> "failed",
                                error |-> "SyntaxError"]
  ELSE IF ~validateBackupData(Parse(content)).isValid
    THEN [pc |-> "finally", how |-> "return", result |-> "invalid",
          error |-> validateBackupData(Parse(content)).error]
  ELSE [pc |-> "restore", how |-> "", result |-> "", error |-> ""]

\* `JSON.parse(fileContent)` and validateBackupData: where the call is next
afterParse(content) ==
  IF ParseThrows(content) THEN [pc |-> "finally", how |-> "catch", result |-> "failed",
                                error |-> "SyntaxError"]
  ELSE IF ~validateBackupData(Parse(content)).isValid
    THEN [pc |-> "finally", how |-> "return", result |-> "invalid",
          error |-> validateBackupData(Parse(content)).error]
  ELSE [pc |-> "prompt", how |-> "", result |-> "", error |-> ""]

ParseAndValidate ==
  /\ InFlight("importBackup", "parse")
  /\ LET to == afterParse(flow.content)
     IN /\ flow' = [flow EXCEPT !.pc = to.pc, !.how = to.how, !.result = to.result,
                                !.error = to.error]
        /\ isProcessing' = IF to.result = "invalid" THEN FALSE ELSE isProcessing
  /\ UNCHANGED <<store, sections, sectionName, items, clock, fails, ops, imports, last,
                 rendered, calls>>

\* the confirmation prompt is answered
PromptAnswered ==
  /\ InFlight("importBackup", "prompt")
  /\ \E confirmRestore \in BOOLEAN :
       IF confirmRestore
         THEN /\ flow' = [flow EXCEPT !.pc = "restore", !.confirm = TRUE]
              /\ isProcessing' = isProcessing
         ELSE /\ Ends("return", "cancelled", "")
              /\ isProcessing' = FALSE
  /\ UNCHANGED <<store, sections, sectionName, items, clock, fails, ops, imports, last,
                 rendered, calls>>

\* restoreData resolves or rejects
RestoreResolved ==
  /\ InFlight("importBackup", "restore")
  /\ \E f \in Faults(restoreCalls(store, Parse(flow.content), flow.replace)) :
       LET r == restoreData(store, Parse(flow.content), flow.replace, f)
       IN /\ Failed(f)
          /\ store' = r.store
          /\ IF r.result = "throw" THEN Ends("catch", "failed", r.error)
             ELSE Ends("return", "ok", "")
  /\ UNCHANGED <<sections, sectionName, items, clock, ops, imports, last, rendered, calls,
                 isProcessing>>

\* `setIsProcessing(true)` and the call of collectAllData
StartExport ==
  /\ flow = NoFlow /\ ~isProcessing
  /\ ops < MaxOps
  /\ ops' = ops + 1
  /\ flow' = [op |-> "exportBackup", pc |-> "collect", replace |-> FALSE,
              content |-> BadJson, confirm |-> FALSE, how |-> "", result |-> "",
              error |-> ""]
  /\ isProcessing' = TRUE
  /\ UNCHANGED <<store, sections, sectionName, items, clock, fails, imports, last,
                 rendered, calls>>

\* collectAllData resolves or rejects
CollectResolved ==
  /\ InFlight("exportBackup", "collect")
  /\ \E now \in Readings, f \in Faults(collectCalls(store)) :
       LET c == collectAllData(store, now, f)
       IN /\ Failed(f)
          /\ clock' = now
          /\ IF c.result = "throw" THEN Ends("catch", "failed", "storage")
             ELSE flow' = [flow EXCEPT !.pc = "write", !.content = Stringify(c.data)]
  /\ UNCHANGED <<store, sections, sectionName, items, ops, imports, last, rendered, calls,
                 isProcessing>>

\* FileSystem.writeAsStringAsync resolves or rejects
FileWritten ==
  /\ InFlight("exportBackup", "write")
  /\ \/ Goes("share")
     \/ Ends("catch", "failed", "io")
  /\ UNCHANGED <<store, sections, sectionName, items, clock, fails, ops, imports, last,
                 rendered, calls, isProcessing>>

\* sharing is not available, or the share sheet is closed, or it rejects
ShareResolved ==
  /\ InFlight("exportBackup", "share")
  /\ \/ Ends("return", "ok", "")
     \/ Ends("catch", "failed", "io")
  /\ UNCHANGED <<store, sections, sectionName, items, clock, fails, ops, imports, last,
                 rendered, calls, isProcessing>>

\* not the code: there is no finally block, isProcessing stays as the call
\* left it
settledWithoutFinally(p) == p

\* `finally { setIsProcessing(false) }`: isProcessing after the call, p before
settled(p) == FALSE

\* the finally block runs and the call returns its result
Finally ==
  /\ flow.op # "none" /\ flow.pc = "finally"
  /\ isProcessing' = settled(isProcessing)
  /\ last' = [op |-> flow.op, replace |-> flow.replace, content |-> flow.content,
              confirm |-> flow.confirm, how |-> flow.how, result |-> flow.result,
              error |-> flow.error]
  /\ flow' = NoFlow
  /\ UNCHANGED <<store, sections, sectionName, items, clock, fails, ops, imports,
                 rendered, calls>>

FlowNext ==
  \/ StartImport
  \/ PickerAnswered
  \/ ParseAndValidate
  \/ PromptAnswered
  \/ RestoreResolved
  \/ StartExport
  \/ CollectResolved
  \/ FileWritten
  \/ ShareResolved
  \/ Finally

\* Every awaited promise settles: the picker and the prompt are answered,
\* the store and file-system calls resolve or reject, the share sheet is
\* closed; code that is not waiting runs on.
FlowFairness ==
  /\ WF_vars(PickerAnswered)
  /\ WF_vars(ParseAndValidate)
  /\ WF_vars(PromptAnswered)
  /\ WF_vars(RestoreResolved)
  /\ WF_vars(CollectResolved)
  /\ WF_vars(FileWritten)
  /\ WF_vars(ShareResolved)
  /\ WF_vars(Finally)

FlowSpec == FlowInit /\ [][FlowNext]_vars /\ FlowFairness
\* ---------------------------------------------------------------- claims
\* what a reload reads from the store
StoredSections(st) == loadSections(st, FALSE)
StoredItems(st, name) == loadItems(st, name, FALSE)
\* the value stored under a main key, as restoreFromBackup would return it
MainValue(st, key) == IF getItem(st, key) = Absent THEN NullV ELSE Parse(getItem(st, key))
Mirrors(st, backupKey, key) == restoreFromBackup(st, backupKey, FALSE) = MainValue(st, key)
SectionOps == {"addSection", "deleteSection", "renameSection"}
ItemOps == {"addItem", "updateItem", "deleteItem", "clearAllItems"}

\* C1: an addItem, updateItem or deleteItem call made when a reload of the
\* section's items would yield the in-memory list leaves them so: after the
\* call (its write failed or not) the reloaded list is the in-memory list.
C1_RoundTrip ==
  [][(/\ last'.op \in {"addItem", "updateItem", "deleteItem"}
      /\ StoredItems(store, sectionName) = items)
       => StoredItems(store', sectionName) = items']_vars

ListBackupCall == IF last.op = "renameSection" THEN (IF last.had THEN 8 ELSE 5) ELSE 2

C3_RenamePreservesItems ==
  [][(/\ last'.op = "renameSection" /\ last'.result = "ok" /\ last'.had
      /\ Includes(StoredSections(store).v, last'.name)
      /\ ~Includes(StoredSections(store).v, last'.newName))
       => /\ getItem(store', ITEMS \o last'.newName) = getItem(store, ITEMS \o last'.name)
          /\ \A i \in 1..Len(StoredSections(store).v) :
               StoredSections(store).v[i] = last'.name
                 => /\ i <= Len(StoredSections(store').v)
                    /\ StoredSections(store').v[i] = last'.newName
          /\ ~Includes(StoredSections(store').v, last'.name)
          /\ getItem(store', ITEMS \o last'.name) = Absent]_vars

\* C4 as claimed: renameSection(A, B) when B is in the stored section list
\* throws 'Section name already exists' and changes neither a key of the
\* store (section list, items, backups) nor the in-memory list.
C4_RenameCollision ==
  [][(last'.op = "renameSection" /\ Includes(StoredSections(store).v, last'.newName))
       => /\ last'.result = "throw"
          /\ last'.error = "Section name already exists"
          /\ store' = store
          /\ sections' = sections]_vars

\* C5: after a successful deleteSection(X), X is in neither the stored nor
\* the in-memory section list, its items key is absent and a load of its
\* items yields the empty list.
C5_DeleteCascade ==
  (last.op = "deleteSection" /\ last.result = "ok")
    => /\ ~Includes(StoredSections(store).v, last.name)
       /\ ~Includes(sections.v, last.name)
       /\ getItem(store, ITEMS \o last.name) = Absent
       /\ StoredItems(store, last.name) = Arr(<< >>)

\* a section that had stored items was deleted
C5_Witness == last.op = "deleteSection" /\ last.result = "ok" /\ last.had

\* the snapshot of the last import, when restoreData ran on it
LastDoc == Parse(last.content)
RestoreRan ==
  /\ last.op = "importBackup" /\ last.pick = "file" /\ last.confirm
  /\ last.result \in {"ok", "failed"}
  /\ ~ParseThrows(last.content)
SameLists(s1, s2) ==
  /\ StoredSections(s1) = StoredSections(s2)
  /\ \A n \in Names : getItem(s1, ITEMS \o n) = getItem(s2, ITEMS \o n)

\* C6: after restoreData has run in merge mode on a validated snapshot with
\* no store call failing, running it again on the same snapshot ends the
\* same way and leaves the stored section list and every stored item list
\* as the first run left them.
C6_MergeIdempotent ==
  (RestoreRan /\ ~last.replace /\ last.fault = 0)
    => LET again == restoreData(store, LastDoc, FALSE, 0)
       IN /\ SameLists(again.store, store)
          /\ (again.result = "ok") <=> (last.result = "ok")

\* a merge appended an imported entry after a local one and skipped another
C6_Witness ==
  /\ RestoreRan /\ ~last.replace /\ last.result = "ok"
  /\ \E n \in Names :
       LET L == StoredItems(store, n)
           D == Prop(LastDoc.items, n)
       IN /\ IsArray(D) /\ Len(D.v) = 2
          /\ IsArray(L) /\ Len(L.v) = 2
          /\ L.v[1].t = "obj" /\ "id" \in DOMAIN L.v[1] /\ L.v[1].text \in Texts
          /\ L.v[2] \in {DocEntry(1), DocEntry(2)}

\* C7 as claimed: after a successful replace-mode import the stored section
\* list is the snapshot's, and the items key of every section that was in
\* the stored list before and is not in the snapshot's list is absent.
C7_ReplaceTotality ==
  [][(last'.op = "importBackup" /\ last'.replace /\ last'.result = "ok")
       => /\ StoredSections(store') = Parse(last'.content).sections
          /\ \A n \in Names :
               (/\ Includes(StoredSections(store).v, n)
                /\ ~Includes(Parse(last'.content).sections.v, n))
                 => getItem(store', ITEMS \o n) = Absent]_vars

\* the documents C8 names: an object lacking metadata, sections or items,
\* with sections that is no array, or with an items[name] that is no array
\* for a name in sections
C8Malformed(d) ==
  /\ d.t = "obj"
  /\ \/ d.metadata = Undef \/ d.sections = Undef \/ d.items = Undef
     \/ ~IsArray(d.sections)
     \/ /\ d.items.t = "obj"
        /\ \E i \in 1..Len(d.sections.v) :
             /\ Prop(d.items, d.sections.v[i]) # Undef
             /\ ~IsArray(Prop(d.items, d.sections.v[i]))

\* C8 as claimed: such a document is rejected by validateBackupData with a
\* reason, and importBackup returns that reason and leaves the store as it was.
C8_MalformedRejected ==
  [][(/\ last'.op = "importBackup" /\ last'.pick = "file"
      /\ ~ParseThrows(last'.content)
      /\ C8Malformed(Parse(last'.content)))
       => /\ ~validateBackupData(Parse(last'.content)).isValid
          /\ validateBackupData(Parse(last'.content)).error # ""
          /\ last'.result = "invalid"
          /\ last'.error = validateBackupData(Parse(last'.content)).error
          /\ store' = store]_vars

\* C9: the snapshot exported from a store built by Section Store and Item
\* Store operations, restored in replace mode into an empty store, yields
\* the same section list, the same item list for every listed section, and
\* no items key of an unlisted name.
C9_ExportImportRoundTrip ==
  (last.op = "exportBackup" /\ last.file # Absent /\ imports = 0)
    => LET r == restoreData(EmptyStore, Parse(last.file), TRUE, 0)
       IN /\ r.result = "ok"
          /\ StoredSections(r.store) = StoredSections(store)
          /\ \A n \in Names :
               IF Includes(StoredSections(store).v, n)
                 THEN StoredItems(r.store, n) = StoredItems(store, n)
                 ELSE getItem(r.store, ITEMS \o n) = Absent

\* a section with entries was exported
C9_Witness ==
  /\ last.op = "exportBackup" /\ last.result = "ok" /\ imports = 0
  /\ \E n \in Names :
       /\ Includes(StoredSections(store).v, n)
       /\ IsArray(StoredItems(store, n)) /\ Len(StoredItems(store, n).v) >= 1

NoDuplicates(s) == \A i, j \in 1..Len(s) : s[i] = s[j] => i = j

\* C10 as claimed: neither the stored nor the in-memory section list ever
\* contains the same name twice.
C10_UniqueSectionNames ==
  /\ NoDuplicates(StoredSections(store).v)
  /\ NoDuplicates(sections.v)


\* the entries of a list: its elements that are objects
IsEntry(e) == e.t = "obj"
InRange(its, index) == IsArray(its) /\ index >= 0 /\ index < Len(its.v)

\* C11: a successful updateItem(index, text) on an entry leaves its id and
\* createdAt (every property but text and lastModified) as they were, sets text
\* and lastModified, and leaves every other entry as it was, in memory and in
\* the store; addItem keeps every entry unchanged behind the new one; and
\* every entry deleteItem or clearAllItems leaves in the list is an entry the
\* list held, unchanged.
C11_IdStable ==
  [][/\ (/\ last'.op = "updateItem" /\ last'.result = "ok"
         /\ InRange(items, last'.index) /\ IsEntry(items.v[last'.index + 1]))
          => LET k == last'.index + 1
                 old == items.v[k]
                 new == items'.v[k]
             IN /\ Len(items'.v) = Len(items.v)
                /\ DOMAIN new = DOMAIN old
                /\ \A p \in DOMAIN old \ {"text", "lastModified"} : new[p] = old[p]
                /\ new.text = last'.text /\ new.lastModified = clock'
                /\ \A i \in 1..Len(items.v) :
                     (i # k /\ IsEntry(items.v[i])) => items'.v[i] = items.v[i]
                /\ \A i \in 1..Len(items.v) :
                     IsEntry(items.v[i]) => StoredItems(store', sectionName).v[i] = items'.v[i]
     /\ (last'.op = "addItem" /\ last'.result = "ok")
          => /\ Len(items'.v) = Len(items.v) + 1
             /\ items'.v[1].id = clock'
             /\ \A i \in 1..Len(items.v) :
                  IsEntry(items.v[i]) => items'.v[i + 1] = items.v[i]
     /\ (last'.op \in {"deleteItem", "clearAllItems"} /\ IsArray(items))
          => \A j \in 1..Len(items'.v) :
               IsEntry(items'.v[j]) => \E i \in 1..Len(items.v) : items.v[i] = items'.v[j]]_vars

\* the second of two entries, created at one clock reading, was edited at a
\* later one: it has the id it was created with and a later lastModified
C11_Witness ==
  /\ last.op = "updateItem" /\ last.result = "ok" /\ last.index = 1
  /\ IsArray(items) /\ Len(items.v) = 2
  /\ IsEntry(items.v[2]) /\ "id" \in DOMAIN items.v[2]
  /\ items.v[2].id = 1 /\ items.v[2].createdAt = 1 /\ items.v[2].lastModified = 2
  /\ StoredItems(store, sectionName) = items


\* no two entries of the list have the same id
DistinctIds(its) ==
  \A i, j \in 1..Len(its.v) :
    (/\ IsEntry(its.v[i]) /\ IsEntry(its.v[j])
     /\ "id" \in DOMAIN its.v[i] /\ "id" \in DOMAIN its.v[j]
     /\ its.v[i].id = its.v[j].id) => i = j

\* C12 as claimed: whatever the clock reads at each call, a successful addItem
\* on a list whose ids are pairwise distinct yields a list whose ids are
\* pairwise distinct, in memory and in the store.
C12_DistinctIds ==
  [][(/\ last'.op = "addItem" /\ last'.result = "ok"
      /\ IsArray(items) /\ DistinctIds(items))
       => /\ DistinctIds(items')
          /\ DistinctIds(StoredItems(store', sectionName))]_vars


\* C13: when the write of the section list inside addSection(name) fails,
\* addSection throws, setSections was never called during the call (the
\* in-memory list stayed what it was), and no key of the store has changed.
C13_AddSectionFailure ==
  [][(last'.op = "addSection" /\ last'.fault = 1)
       => /\ last'.result = "throw"
          /\ last'.sets = << >>
          /\ sections' = sections
          /\ store' = store]_vars

\* the write failed while adding a second section to a stored list of one
C13_Witness ==
  /\ last.op = "addSection" /\ last.fault = 1 /\ last.result = "throw"
  /\ Len(sections.v) = 1 /\ ~Includes(sections.v, last.name)
  /\ StoredSections(store) = sections


\* C14 as claimed: when the write of the new list fails inside addItem,
\* updateItem, deleteItem or clearAllItems, the call throws, the in-memory
\* list is again what it was before the call, and it equals the stored list
\* if it did before the call.
C14_RevertOnFailure ==
  [][(last'.op \in ItemOps /\ last'.fault = 1)
       => /\ last'.result = "throw"
          /\ items' = items
          /\ store' = store
          /\ StoredItems(store, sectionName) = items
               => StoredItems(store', sectionName) = items']_vars


\* C15 as claimed: updateItem(index, text) with index < 0 or index >= the
\* length of the list throws and leaves the in-memory list and every key of
\* the store (the stored list and its backup among them) as they were.
C15_UpdateOutOfRange ==
  [][(/\ last'.op = "updateItem"
      /\ IsArray(items) /\ ~InRange(items, last'.index))
       => /\ last'.result = "throw"
          /\ items' = items
          /\ store' = store]_vars


\* the calls of an operation that are writes of createBackup
BackupCalls(l) ==
  IF l.op = "renameSection" THEN (IF l.had THEN {4, 5, 8, 9} ELSE {5, 6})
  ELSE {2, 3}
\* the keys that are no backup keys
MainKeys == {SECTIONS} \cup {ITEMS \o n : n \in Names}
\* the operation that ran last, run again from the state before it with no
\* store call failing
Unfailed(l, st, secs, its, now) ==
  CASE l.op = "addSection" -> addSection(st, secs, l.name, now, 0)
    [] l.op = "deleteSection" -> deleteSection(st, secs, l.name, now, 0)
    [] l.op = "renameSection" -> renameSection(st, secs, l.name, l.newName, now, 0)
    [] l.op = "addItem" -> addItem(st, its, l.name, l.text, now, 0)
    [] l.op = "updateItem" -> updateItem(st, its, l.name, l.index, l.text, now, 0)
    [] l.op = "deleteItem" -> deleteItem(st, its, l.name, l.index, now, 0)
    [] l.op = "clearAllItems" -> clearAllItems(st, its, l.name, now, 0)

\* C16: createBackup returns false without throwing when its first or its
\* second write fails, and a Section Store or Item Store operation in which
\* that happens still succeeds: it ends as the same operation with no call
\* failing does, with the same in-memory state and the same value under
\* every key that is no backup key.
C16_BackupNotFatal ==
  [][(last'.op \in SectionOps \cup ItemOps /\ last'.fault \in BackupCalls(last'))
       => LET good == Unfailed(last', store, sections, items, clock')
          IN /\ last'.result = "ok" /\ good.result = "ok"
             /\ last'.op \in SectionOps
                  => /\ sections' = good.sections
                     /\ getItem(store', SECTIONS) = Stringify(sections')
                     /\ \A w \in {1, 2} :
                          ~createBackup(store, BACKUP_SECTIONS, sections', clock', w).ok
             /\ last'.op \in ItemOps
                  => /\ items' = good.items
                     /\ getItem(store', ITEMS \o sectionName) = Stringify(items')
                     /\ \A w \in {1, 2} :
                          ~createBackup(store, BACKUP_ITEMS \o sectionName, items', clock', w).ok
             /\ \A k \in MainKeys : getItem(store', k) = getItem(good.store, k)]_vars

\* a section with items was deleted although the backup of the list failed:
\* the list is written, the items are removed, the backup is out of date
C16_Witness ==
  /\ last.op = "deleteSection" /\ last.fault = 2 /\ last.result = "ok" /\ last.had
  /\ ~Includes(sections.v, last.name)
  /\ ~Mirrors(store, BACKUP_SECTIONS, SECTIONS)


\* the user cancelled the import l: at the file picker, or at the prompt
Cancelled(l) ==
  \/ l.pick = "canceled"
  \/ /\ l.pick = "file" /\ ~ParseThrows(l.content)
     /\ validateBackupData(Parse(l.content)).isValid
     /\ ~l.confirm

\* C17: an importBackup the user cancels, at the file picker or by declining
\* the confirmation prompt, returns the cancelled outcome with no error and
\* leaves every key of the store as it was; no other import returns that
\* outcome.
C17_CancelLeavesStore ==
  [][last'.op = "importBackup"
       => /\ Cancelled(last')
               => /\ last'.result = "cancelled" /\ last'.error = ""
                  /\ store' = store
          /\ last'.result = "cancelled" => Cancelled(last')]_vars

\* the prompt of a valid file was declined over a store that holds a section
\* list which the file would have replaced
C17_Witness ==
  /\ last.op = "importBackup" /\ last.pick = "file" /\ last.result = "cancelled"
  /\ last.replace /\ ~last.confirm
  /\ getItem(store, SECTIONS) # Absent
  /\ StoredSections(store) # Parse(last.content).sections


\* C18 as claimed: when a confirmed importBackup has restored the data and
\* reports success, the reload callback has run: the Section Store's
\* in-memory list is the section list the import stored.
C18_ReloadAfterImport ==
  [][(last'.op = "importBackup" /\ last'.confirm /\ last'.result = "ok")
       => sections' = StoredSections(store')]_vars


\* C19 as claimed: after a merge-mode restore of a validated snapshot, every
\* stored item list whose ids were pairwise distinct before the merge has
\* pairwise distinct ids.
C19_MergeDistinctIds ==
  [][(last'.op = "importBackup" /\ ~last'.replace /\ last'.result = "ok")
       => \A n \in Names :
            (/\ IsArray(StoredItems(store, n)) /\ DistinctIds(StoredItems(store, n))
             /\ IsArray(StoredItems(store', n)))
              => DistinctIds(StoredItems(store', n))]_vars


\* the entries of inc whose id no entry of prev has, in the order of inc
NewEntries(prev, inc) ==
  SelectSeq(inc.v, LAMBDA e : \A i \in 1..Len(prev.v) : IdOf(prev.v[i]) # IdOf(e))

StoredNames(st) == IF getItem(st, SECTIONS) = Absent THEN << >> ELSE Parse(getItem(st, SECTIONS)).v
\* the index of the first occurrence of x in s
FirstAt(s, x) == CHOOSE i \in 1..Len(s) : s[i] = x /\ \A j \in 1..(i - 1) : s[j] # x
Elems(s) == {s[i] : i \in 1..Len(s)}

\* C21: after a successful merge-mode restore the stored section list holds
\* exactly the names of the list stored before and of the snapshot's list,
\* each once; the names of the list stored before come first, in the order
\* they had (a list without repetition is kept as it was, position by
\* position: none of its sections is removed or moved), and the snapshot's
\* names that were not in it follow, in the order of the snapshot.
C21_MergeSections ==
  [][(last'.op = "importBackup" /\ ~last'.replace /\ last'.result = "ok")
       => LET cur == StoredNames(store)
              inc == Parse(last'.content).sections.v
              new == StoredNames(store')
          IN /\ NoDuplicates(new)
             /\ Elems(new) = Elems(cur) \cup Elems(inc)
             /\ NoDuplicates(cur) => SubSeq(new, 1, Len(cur)) = cur
             /\ \A i, j \in 1..Len(new) :
                  i < j =>
                    \/ /\ new[i] \in Elems(cur) /\ new[j] \in Elems(cur)
                       /\ FirstAt(cur, new[i]) < FirstAt(cur, new[j])
                    \/ new[i] \in Elems(cur) /\ new[j] \notin Elems(cur)
                    \/ /\ new[i] \notin Elems(cur) /\ new[j] \notin Elems(cur)
                       /\ FirstAt(inc, new[i]) < FirstAt(inc, new[j])]_vars

\* the snapshot list C, A was merged into the stored list B, A: the stored
\* list is B, A, C
C21_Witness ==
  /\ RestoreRan /\ ~last.replace /\ last.result = "ok"
  /\ LastDoc.sections.v = <<"C", "A">>
  /\ StoredNames(store) = <<"B", "A", "C">>


\* C22 as claimed: when a store call of deleteSection or renameSection fails
\* (a write, a read or a removal of the operation itself, the writes inside
\* createBackup left aside), starting with the in-memory list equal to the
\* stored one, the error is thrown to the caller and afterwards the in-memory
\* section list is the list stored under @diary_sections.
C22_FailureKeepsListsEqual ==
  [][(/\ last'.op \in {"deleteSection", "renameSection"}
      /\ last'.fault # 0 /\ last'.fault \notin BackupCalls(last')
      /\ sections = StoredSections(store))
       => /\ last'.result = "throw"
          /\ sections' = StoredSections(store')]_vars


\* a stored string that parses to an envelope: an object with a data property
IsEnvelope(str) ==
  /\ str # Absent /\ ~ParseThrows(str)
  /\ Parse(str).t = "obj" /\ "data" \in DOMAIN Parse(str)

\* C23: restoreFromBackup(key) returns the data property of the envelope
\* stored at key; it returns null when the key is absent, when the stored
\* string is no JSON and when the read fails; it never throws and leaves
\* every key of the store as it was.
C23_RestoreFromBackup ==
  [][last'.op = "restoreFromBackup"
       => LET str == getItem(store, last'.key)
          IN /\ last'.value # Thrown
             /\ store' = store
             /\ (last'.fault \/ str = Absent \/ ParseThrows(str)) => last'.value = NullV
             /\ (~last'.fault /\ IsEnvelope(str)) => last'.value = Parse(str).data]_vars

\* a key that held a string that is no JSON was backed up to, and the list
\* backed up (its hole read back as null) is what restoreFromBackup returns
C23_Witness ==
  /\ last.op = "restoreFromBackup" /\ ~last.fault
  /\ last.value = Arr(<<Obj, NullV>>)
  /\ \E k \in BackupKeys : getItem(store, k) = BadJson


\* The store calls of a Section Store operation as the sub-steps the
\* specification lists, in their order. A step is a write, a read or a
\* removal; part tells the steps of the operation itself ("op") from the two
\* writes of a backup ("envelope", then "metadata").
WriteStep(key, str) == [do |-> "set", key |-> key, str |-> str, part |-> "op"]
ReadStep(key) == [do |-> "get", key |-> key, part |-> "op"]
RemoveStep(key) == [do |-> "remove", key |-> key, part |-> "op"]
BackupSteps(backupKey, data, now) ==
  << [do |-> "set", key |-> backupKey, part |-> "envelope",
      str |-> Stringify([t |-> "obj", data |-> data, timestamp |-> now,
                         version |-> BackupVersion])],
     [do |-> "set", key |-> BACKUP_METADATA, part |-> "metadata",
      str |-> Stringify([t |-> "obj", lastBackup |-> now, backupKey |-> backupKey,
                         status |-> "success"])] >>

\* the list a Section Store operation l computes from the in-memory list
NewList(l, secs) ==
  CASE l.op = "addSection" -> StrArr(<<l.name>> \o secs.v)
    [] l.op = "deleteSection" -> StrArr(SelectSeq(secs.v, LAMBDA s : s # l.name))
    [] l.op = "renameSection" ->
         StrArr([i \in 1..Len(secs.v) |-> IF secs.v[i] = l.name THEN l.newName ELSE secs.v[i]])

SectionSteps(l, st, secs, now) ==
  LET new == NewList(l, secs)
      listWrite == <<WriteStep(SECTIONS, Stringify(new))>>
      listBackup == BackupSteps(BACKUP_SECTIONS, new, now)
  IN CASE l.op = "addSection" -> listWrite \o listBackup
       [] l.op = "deleteSection" ->
            listWrite \o listBackup
              \o <<RemoveStep(ITEMS \o l.name), RemoveStep(BACKUP_ITEMS \o l.name)>>
       [] l.op = "renameSection" ->
            listWrite \o <<ReadStep(ITEMS \o l.name)>>
              \o (IF getItem(st, ITEMS \o l.name) # Absent
                    THEN <<WriteStep(ITEMS \o l.newName, getItem(st, ITEMS \o l.name))>>
                           \o BackupSteps(BACKUP_ITEMS \o l.newName,
                                          Parse(getItem(st, ITEMS \o l.name)), now)
                    ELSE << >>)
              \o <<RemoveStep(ITEMS \o l.name), RemoveStep(BACKUP_ITEMS \o l.name)>>
              \o listBackup

\* The steps run one after the other from the store st, the step numbered f
\* failing (0: none). A failing step of the operation ends it: no later step
\* runs. A failing write of a backup ends the backup only: its metadata write
\* does not run, the steps after the backup do.
RunSteps(st, steps, f) ==
  LET F[i \in 0..Len(steps)] ==
        IF i = 0 THEN [store |-> st, threw |-> FALSE]
        ELSE LET before == F[i - 1]
                 step == steps[i]
             IN IF before.threw THEN before
                ELSE IF i = f
                  THEN IF step.part = "op" THEN [before EXCEPT !.threw = TRUE] ELSE before
                ELSE IF step.part = "metadata" /\ i - 1 = f THEN before
                ELSE IF step.do = "set"
                  THEN [before EXCEPT !.store = setItem(before.store, step.key, step.str)]
                ELSE IF step.do = "remove"
                  THEN [before EXCEPT !.store = removeItem(before.store, step.key)]
                ELSE before
  IN F[Len(steps)]

\* C24: the sub-steps of addSection, deleteSection and renameSection run
\* strictly one after the other, the in-memory update last: the store after
\* the operation is the store its steps leave when run in sequence up to the
\* one that fails, and the in-memory list is set (once, to the new list) only
\* when the list write, the backup writes and every copy and removal of the
\* operation have been gone through; when a step's failure ends the operation
\* the in-memory list is not set at all.
C24_StepsInSequence ==
  [][(last'.op \in SectionOps /\ last'.error # "Section name already exists")
       => LET run == RunSteps(store, SectionSteps(last', store, sections, clock'), last'.fault)
          IN /\ store' = run.store
             /\ IF run.threw
                  THEN last'.result = "throw" /\ last'.sets = << >> /\ sections' = sections
                  ELSE /\ last'.result = "ok"
                       /\ last'.sets = <<NewList(last', sections)>>
                       /\ sections' = NewList(last', sections)]_vars

\* a rename of a section with items failed at the removal of the old backup
\* key: the list is written, the items are copied and backed up, the old
\* items key is removed, and the in-memory list still has the old name
C24_Witness ==
  /\ last.op = "renameSection" /\ last.had /\ last.fault = 7 /\ last.result = "throw"
  /\ Includes(StoredNames(store), last.newName)
  /\ getItem(store, ITEMS \o last.newName) # Absent
  /\ getItem(store, BACKUP_ITEMS \o last.newName) # Absent
  /\ getItem(store, ITEMS \o last.name) = Absent
  /\ Includes(sections.v, last.name)


\* C25 as claimed: addItem commits to memory after it has persisted: every
\* list it passes to setItems holds only entries of the list stored at that
\* moment. The first list it passes is set before any store call of addItem
\* is made, so it is compared with the list stored before the call.
C25_WriteThenCommit ==
  [][(last'.op = "addItem" /\ IsArray(items) /\ last'.sets # << >>)
       => LET shown == last'.sets[1]
              stored == StoredItems(store, sectionName)
          IN /\ IsArray(stored)
             /\ \A i \in 1..Len(shown.v) : Includes(stored.v, shown.v[i])]_vars


\* both addItem calls have returned their entry
BothAdded == \A c \in Callers : calls[c].pc = "done" /\ calls[c].result = "ok"
\* the second call was made before the screen rendered the first one's list
Overlapped == calls[2].seen = calls[1].seen

\* C26: when two addItem calls on a section overlap, the second made before
\* the list it closes over is refreshed, and both return success, an update
\* is lost: both new lists are built from the same list, and the stored list
\* is that list with one new entry in front, the entry of the call whose
\* write was the later one; the other call's entry is not added to it.
C26_LostUpdate ==
  (BothAdded /\ Overlapped)
    => LET stored == StoredItems(store, RaceSection)
           seen == calls[1].seen
       IN /\ IsArray(stored)
          /\ Len(stored.v) = Len(seen.v) + 1
          /\ stored.v[1] \in {calls[1].newItem, calls[2].newItem}
          /\ SubSeq(stored.v, 2, Len(stored.v)) = seen.v

\* both calls returned success and the stored list holds the second call's
\* entry only: the first call's entry, a different one, is in no stored list
C26_Witness ==
  /\ BothAdded /\ Overlapped
  /\ calls[1].newItem # calls[2].newItem
  /\ StoredItems(store, RaceSection) = calls[2].newItems
  /\ ~Includes(StoredItems(store, RaceSection).v, calls[1].newItem)


\* C28: every exportBackup and importBackup call that is in flight
\* eventually returns, on whatever path it takes, and isProcessing is false
\* then; isProcessing is true only while such a call is in flight.
C28_ReturnsToIdle ==
  /\ [](isProcessing => flow # NoFlow)
  /\ (flow # NoFlow) ~> (flow = NoFlow /\ ~isProcessing)

\* an import whose restore failed has returned: its result is the failure,
\* the store is partly written, no call is in flight, isProcessing is false
C28_Witness ==
  /\ flow = NoFlow /\ ~isProcessing
  /\ last.op = "importBackup" /\ last.result = "failed" /\ last.error = "storage"
  /\ last.confirm
  /\ store \notin FlowStores


\* C27: in the import flow a key of the store is written or removed only by
\* restoreData, which runs only after the picked file has been parsed,
\* accepted by validateBackupData and confirmed at the prompt; a call that
\* has been confirmed no longer ends as cancelled, and a cancelled call has
\* changed no key.
C27_NoWriteBeforeConfirmed ==
  [][/\ store' # store
          => /\ InFlight("importBackup", "restore")
             /\ flow.confirm
             /\ ~ParseThrows(flow.content)
             /\ validateBackupData(Parse(flow.content)).isValid
     /\ (flow.op = "importBackup" /\ flow' # flow /\ flow' # NoFlow /\ flow.confirm)
          => flow'.result \in {"ok", "failed"}
     /\ (flow.op = "importBackup" /\ flow' # NoFlow /\ flow'.result = "cancelled")
          => ~flow'.confirm /\ store' = store]_vars

\* a confirmed replace of a validated file has run and rewritten the store
C27_Witness ==
  /\ flow.op = "importBackup" /\ flow.pc = "finally" /\ flow.result = "ok"
  /\ flow.confirm /\ flow.replace
  /\ validateBackupData(Parse(flow.content)).isValid
  /\ StoredSections(store) = Parse(flow.content).sections
  /\ store \notin FlowStores


\* C29 as claimed: an import of a file whose content is no JSON ends as an
\* import of a file validateBackupData rejects does: with the invalid-file
\* outcome (the 'Invalid Backup File' alert and a validation reason as the
\* error), nothing thrown to the caller, and every key of the store as it was.
C29_ParseFailureIsValidationError ==
  [][(last'.op = "importBackup" /\ last'.pick = "file" /\ ParseThrows(last'.content))
       => /\ last'.result = "invalid"
          /\ store' = store]_vars


BackupKeySet == {BACKUP_SECTIONS, BACKUP_METADATA} \cup {BACKUP_ITEMS \o n : n \in Names}

\* C30: an import, in replace mode or in merge mode, whether restoreData
\* runs to its end or fails on the way, leaves every backup key as it was:
\* @backup_diary_sections, @backup_metadata and the items backup of every
\* section, those whose items key replace mode removes included.
C30_RestoreKeepsBackups ==
  [][last'.op = "importBackup"
       => \A key \in BackupKeySet : getItem(store', key) = getItem(store, key)]_vars

\* a replace has removed the items key of a section that is not in the
\* snapshot, and the items backup of that section is still stored
C30_Witness ==
  /\ RestoreRan /\ last.replace /\ last.result = "ok"
  /\ \E n \in Names :
       /\ ~Includes(StoredNames(store), n)
       /\ getItem(store, ITEMS \o n) = Absent
       /\ IsEnvelope(getItem(store, BACKUP_ITEMS \o n))
       /\ Parse(getItem(store, BACKUP_ITEMS \o n)).data.v # << >>


\* C31: after a successful deleteSection(X) and after a successful
\* renameSection(X, Y) the key @backup_diary_items_X is absent, and
\* restoreFromBackup on it returns null.
C31_BackupGoesWithName ==
  (last.op \in {"deleteSection", "renameSection"} /\ last.result = "ok")
    => /\ getItem(store, BACKUP_ITEMS \o last.name) = Absent
       /\ restoreFromBackup(store, BACKUP_ITEMS \o last.name, FALSE) = NullV

\* a section whose items had been saved and backed up was deleted: its
\* backup is gone, while the backup of another section is still stored
C31_Witness ==
  /\ last.op = "deleteSection" /\ last.result = "ok" /\ last.had
  /\ getItem(store, BACKUP_ITEMS \o last.name) = Absent
  /\ \E n \in Names : n # last.name /\ IsEnvelope(getItem(store, BACKUP_ITEMS \o n))


\* C32 as claimed: a successful renameSection(old, new) of a section with
\* no stored items key skips the copy: it leaves the keys @diary_items_<new>
\* and @backup_diary_items_<new> as they were, and a load of the items of new
\* after it yields the empty list.
C32_RenameWithoutItems ==
  [][(last'.op = "renameSection" /\ last'.result = "ok" /\ ~last'.had)
       => /\ getItem(store', ITEMS \o last'.newName) = getItem(store, ITEMS \o last'.newName)
          /\ getItem(store', BACKUP_ITEMS \o last'.newName)
               = getItem(store, BACKUP_ITEMS \o last'.newName)
          /\ StoredItems(store', last'.newName) = Arr(<< >>)]_vars


\* the sum of the lengths of the lists that are the values of entries es
RECURSIVE SumOfLengths(_)
SumOfLengths(es) ==
  IF es = << >> THEN 0 ELSE Len(es[1][2].v) + SumOfLengths(Tail(es))

\* C33 as claimed: the snapshot collectAllData returns when no store call
\* fails is consistent with the store: its sections are the stored section
\* list; its items have exactly one entry for each listed section, the
\* section's stored items (the empty list when the key is absent); totalItems
\* and metadata.totalItems are the sum of the lengths of those lists and
\* metadata.totalSections is the number of sections; getBackupInfo reports
\* these two counts.
C33_SnapshotConsistent ==
  LET c == collectAllData(store, clock, 0)
      info == getBackupInfo(store, clock, 0)
      listed == StoredNames(store)
  IN /\ c.result = "ok"
     /\ c.data.sections.v = listed
     /\ Len(c.data.items.entries) = Len(listed)
     /\ \A i \in 1..Len(listed) :
          /\ c.data.items.entries[i][1] = listed[i]
          /\ c.data.items.entries[i][2] = StoredItems(store, listed[i])
          /\ IsArray(c.data.items.entries[i][2])
     /\ c.data.totalItems = SumOfLengths(c.data.items.entries)
     /\ c.data.metadata.totalItems = c.data.totalItems
     /\ c.data.metadata.totalSections = Len(listed)
     /\ info # NullV
     /\ info.sections = Len(listed) /\ info.totalItems = c.data.totalItems


\* C34 as claimed: once the section name has changed and every load that
\* was started has resolved, with no read failing, the in-memory item list
\* is the stored item list of the current section name.
C34_ItemsOfCurrentSection ==
  (/\ \A c \in Callers : calls[c] # NoCall /\ calls[c].pc = "done"
   /\ fails = 0)
    => items = StoredItems(store, sectionName)


\* the entry a successful addItem l called at time now returns
Added(l, now) ==
  [t |-> "obj", id |-> now, text |-> l.text, createdAt |-> now, lastModified |-> now]

\* C35 as claimed: a successful addSection(name) makes name the first
\* element of the stored and of the in-memory section list, and a successful
\* addItem(text) makes the entry it returns the first element of the stored
\* and of the in-memory item list; in each of these lists the elements that
\* were in it before follow, in the order they had.
C35_NewestFirst ==
  [][/\ (last'.op = "addSection" /\ last'.result = "ok")
          => /\ sections'.v = <<last'.name>> \o sections.v
             /\ StoredNames(store') = <<last'.name>> \o StoredNames(store)
     /\ (last'.op = "addItem" /\ last'.result = "ok")
          => /\ items'.v = <<Added(last', clock')>> \o Spread(items.v)
             /\ IsArray(StoredItems(store, sectionName))
             /\ StoredItems(store', sectionName).v
                  = <<Added(last', clock')>> \o StoredItems(store, sectionName).v]_vars


\* C36 as claimed: a successful addSection, deleteSection or renameSection
\* that follows an import which restored data applies its change to the
\* section list stored immediately before the call: the stored list after
\* addSection(n) is n in front of that list, after deleteSection that list
\* without the name, after renameSection that list with the name replaced.
C36_MutationsKeepImported ==
  [][(/\ last.op = "importBackup" /\ last.result = "ok"
      /\ last'.op \in SectionOps /\ last'.result = "ok")
       => StoredNames(store') = NewList(last', StrArr(StoredNames(store))).v]_vars



\* C37 as claimed: every snapshot validateBackupData accepts is restored to
\* the end: a confirmed import of such a snapshot, in replace mode or in
\* merge mode, during which no store call fails, reports success and never
\* stops with an error raised by the shape of the snapshot.
C37_ValidationSufficient ==
  [][(/\ last'.op = "importBackup" /\ last'.pick = "file"
      /\ ~ParseThrows(last'.content)
      /\ validateBackupData(Parse(last'.content)).isValid
      /\ last'.confirm /\ last'.fault = 0)
       => last'.result = "ok"]_vars



\* every items key present in the store belongs to a listed section
NoOrphans(st) ==
  \A n \in Names : getItem(st, ITEMS \o n) # Absent => Includes(StoredSections(st).v, n)

\* C38 as claimed: successful operations never leave an items key without
\* its section: from a state in which no store call has failed and every
\* items key present belongs to a section of the stored list, a successful
\* addSection, deleteSection, renameSection, item mutator or import leads
\* to a state in which that is so again.
C38_NoOrphanPartitions ==
  [][(/\ fails = 0 /\ NoOrphans(store)
      /\ last'.op \in SectionOps \cup ItemOps \cup {"importBackup"}
      /\ last'.result = "ok")
       => NoOrphans(store')]_vars



\* the section list and the item lists a collectAllData of the store st returns
SnapshotOf(st) ==
  LET c == collectAllData(st, 1, 0)
  IN [sections |-> c.data.sections.v, items |-> c.data.items]

\* C39 as claimed: the snapshot collectAllData returns is the store's
\* content at one instant of its run, also when a deleteSection or a
\* renameSection runs between its reads: its section list and item lists
\* are those of one of the contents the store has had since its first read,
\* and every section it lists has the item list the store held for that
\* section at a moment when the store listed it.
C39_SnapshotOfOneInstant ==
  (flow # NoFlow /\ flow.pc = "done" /\ flow.result = "ok")
    => /\ \E st \in flow.seen :
            SnapshotOf(st) = [sections |-> flow.secs, items |-> flow.allItems]
       /\ \A k \in 1..Len(flow.allItems.entries) :
            \E st \in flow.seen :
              /\ Includes(StoredNames(st), flow.allItems.entries[k][1])
              /\ StoredItems(st, flow.allItems.entries[k][1]) = flow.allItems.entries[k][2]



\* the keys an Item Store mutator on the section `name` may write
OwnKeys(name) == {ITEMS \o name, BACKUP_ITEMS \o name, BACKUP_METADATA}

\* C40: addItem, updateItem, deleteItem and clearAllItems on a section write
\* only that section's items key, its items backup key and @backup_metadata,
\* whether the call succeeds or fails: the stored section list, its backup
\* and the items and backup keys of every other section are as before.
C40_ItemMutatorFrame ==
  [][last'.op \in ItemOps
       => \A key \in DOMAIN store \ OwnKeys(sectionName) : store'[key] = store[key]]_vars

\* an addItem on one section has written its keys while the section list's
\* backup and another section's items and items backup are stored
C40_Witness ==
  /\ last.op = "addItem" /\ last.result = "ok"
  /\ getItem(store, ITEMS \o last.name) # Absent
  /\ IsEnvelope(getItem(store, BACKUP_ITEMS \o last.name))
  /\ IsEnvelope(getItem(store, BACKUP_SECTIONS))
  /\ \E n \in Names \ {last.name} :
       /\ getItem(store, ITEMS \o n) # Absent
       /\ IsEnvelope(getItem(store, BACKUP_ITEMS \o n))

====
